---- MODULE Spec2Model ----
(***************************************************************************)
(* A model of the audio visualizer's adaptive pipeline:                    *)
(*   - PerformanceLOD (utils/PerformanceLOD.ts): the quality controller,   *)
(*   - DeviceCapabilities (utils/DeviceCapabilities.ts): the profiler,     *)
(*   - AudioAnalyzer (AudioAnalyzer.ts): the band analysis,                *)
(*   - VisualizerEngine (VisualizerEngine.ts): the scene,                  *)
(*   - AudioVisualizerApp (main.ts): the render loop.                      *)
(* JavaScript array indices are kept 0-based: lodLevels and the frequency  *)
(* buffer are functions over 0..n-1.  fps samples are integers, so the     *)
(* mean of a window is compared exactly through its sum.                   *)
(***************************************************************************)
EXTENDS Integers, Sequences, FiniteSets, TLC

VARIABLES
    \* ---- PerformanceLOD
    currentLOD,          \* index into lodLevels of this.currentLOD
    performanceHistory,  \* this.performanceHistory, oldest sample first
    lodChangeCallback,   \* constructor argument: "none", "returns" or "throws"
    callbackArgs,        \* arguments the callback received during the latest call
    callbackSaw,         \* controller state the callback could read when it ran
    threw,               \* the latest call ended by an exception reaching its caller
    \* ---- the caller of PerformanceLOD (the input stream of a scenario)
    calls,               \* updatePerformance calls made so far (scenario runs only)
    fpsA,                \* fps fed by a scenario (first phase), 0 outside scenarios
    fpsB,                \* fps fed by a scenario (second phase), 0 outside scenarios
    startLOD,            \* tier held when the scenario's first sample was recorded
    lastFrom,            \* tier left by the latest automatic change, -1 if none
    manualAt,            \* number of samples recorded at the latest setLOD, -1 if none
    blockPos,            \* position of the next sample in its block of equal samples
    lastCall,            \* the latest call made on the controller, with its argument
    \* ---- DeviceCapabilities
    host,                \* what navigator, window and the WebGL context report
    pcDevice,            \* constructor position: "new", "detected", "ready"
    deviceInfo,          \* this.deviceInfo
    qualitySettings,     \* this.qualitySettings
    \* ---- AudioAnalyzer
    config,              \* this.config
    frequencyData,       \* this.frequencyData, a function over 0..fftSize/2 - 1
    analyser,            \* this.analyser is not null
    isInitialized,       \* this.isInitialized
    source,              \* this.source: id of the source node, 0 for null
    currentStream,       \* this.currentStream: id of the stream, 0 for none
    currentAudioElement, \* this.currentAudioElement: id of the element, 0 for null
    connectedSources,    \* ids of the source nodes connected to the analyser node
    liveStreams,         \* ids of the microphone streams whose tracks are live
    playingElements,     \* ids of the audio elements that are playing
    connectPc,           \* where each connect call stands
    audioResult,         \* what the latest getFrequencyData call returned
    \* ---- VisualizerEngine
    vizConfig,           \* this.config
    isAnimating,         \* this.isAnimating
    originalVertices,    \* this.originalVertices, the base mesh
    meshPositions,       \* icosphereGeometry.attributes.position.array
    icosphereMaterial,   \* what the mesh material's properties were written from
    camera,              \* what the camera position was written from
    particlePositions,   \* this.particlePositions, Undefined if never assigned
    particleVelocities,  \* this.particleVelocities, Undefined if never assigned
    particleMaterial,    \* "undefined", "shader" or "points"
    particleUniforms,    \* what the particle material's values were written from
    particleSystem,      \* "undefined" until assigned, then "visible" or "hidden"
    disposed,            \* the resources dispose() has released
    unassignedRead,      \* field the latest operation read while unassigned, or "none"
    vizWrites,           \* parts written by the latest updateVisualization call
    vizThrew,            \* the latest scene call ended by an exception
    integrated,          \* positions the latest particle loop integrated, per particle
    pastEnd,             \* the latest particle loop used an index past the buffers
    \* ---- the caller of VisualizerEngine
    updates,             \* updateVisualization calls made so far
    probeOut,            \* per morphing intensity: the mesh a probe call produced
    \* ---- AudioVisualizerApp
    isRunning,           \* this.isRunning
    animationFrameId,    \* this.animationFrameId, 0 for null
    pendingFrames,       \* ids of the frame callbacks requested and not yet run
    nextFrameId,         \* the id the next requestAnimationFrame returns
    framesRun,           \* frames processed so far
    framesInRefresh,     \* frames processed during the latest display refresh
    frameCalls,          \* the calls the latest frame made, in order
    lastLoopCall,        \* the latest step of the loop
    \* UIController
    currentAudioMode,    \* "none", "microphone" or "file"
    isPlaying,           \* this.isPlaying
    uiPc                 \* where each microphone-toggle or file-upload handler stands

lodVars == <<currentLOD, performanceHistory, lodChangeCallback, callbackArgs, callbackSaw, threw>>
callerVars == <<calls, fpsA, fpsB, startLOD, lastFrom, manualAt, blockPos, lastCall>>
deviceVars == <<host, pcDevice, deviceInfo, qualitySettings>>
sourceVars ==
    <<source, currentStream, currentAudioElement, connectedSources, liveStreams,
      playingElements, connectPc>>
audioVars == <<config, frequencyData, analyser, isInitialized, audioResult, sourceVars>>
sceneVars ==
    <<vizConfig, isAnimating, originalVertices, meshPositions, icosphereMaterial,
      camera, particlePositions, particleVelocities, particleMaterial,
      particleUniforms, particleSystem, disposed, unassignedRead,
      vizWrites, vizThrew, integrated, pastEnd, updates, probeOut>>
renderVars ==
    <<isRunning, animationFrameId, pendingFrames, nextFrameId, framesRun,
      framesInRefresh, frameCalls, lastLoopCall>>
uiVars == <<currentAudioMode, isPlaying, uiPc>>
loopVars == <<renderVars, uiVars>>
vars == <<lodVars, callerVars, deviceVars, audioVars, sceneVars, loopVars>>

----------------------------------------------------------------------------
(* Bounds of the model *)

\* In the general specification the measured fps changes value only every
\* BlockLen samples.
BlockLen == 10
\* Number of samples of the steady-stream scenario.
MaxSteadyCalls == 200
\* Number of samples of the two-phase scenario.
MaxPhaseCalls == 60
MaxOverrideCalls == 35
MaxConnectCalls == 3
\* Largest number of frequency bins (fftSize / 2) of an analyser.
MaxBins == 4
\* Number of updateVisualization calls made on a scene.
MaxUpdates == 3
\* Number of frames a render loop processes.
MaxFrames == 12

\* fps values of the general specification: a stall and a fast host.
FpsValues == {10, 65}
\* fps values of the steady-stream scenario.
SteadyFps == 20..65
\* fps values of the two phases of the two-phase scenario.
PhaseFps == {10, 30, 60}

----------------------------------------------------------------------------
(* PerformanceLOD *)

\* this.lodLevels, lowest to highest quality
lodLevels ==
    LET t == << [name |-> "Potato", particleCount |-> 100, geometrySegments |-> 8,
                 enableComplexShaders |-> FALSE, enablePostProcessing |-> FALSE,
                 targetFPS |-> 30],
                [name |-> "Low", particleCount |-> 300, geometrySegments |-> 16,
                 enableComplexShaders |-> FALSE, enablePostProcessing |-> FALSE,
                 targetFPS |-> 45],
                [name |-> "Medium", particleCount |-> 600, geometrySegments |-> 24,
                 enableComplexShaders |-> TRUE, enablePostProcessing |-> FALSE,
                 targetFPS |-> 55],
                [name |-> "High", particleCount |-> 1000, geometrySegments |-> 32,
                 enableComplexShaders |-> TRUE, enablePostProcessing |-> TRUE,
                 targetFPS |-> 58],
                [name |-> "Ultra", particleCount |-> 2000, geometrySegments |-> 48,
                 enableComplexShaders |-> TRUE, enablePostProcessing |-> TRUE,
                 targetFPS |-> 60] >>
    IN [i \in 0..(Len(t) - 1) |-> t[i + 1]]

\* this.lodLevels.length
lodCount == 5

\* private readonly maxHistoryLength = 60
maxHistoryLength == 60

\* updatePerformance: evaluation starts at performanceHistory.length >= 30
minSamples == 30

\* evaluateLODChange: performanceHistory.slice(-30)
recentWindow == 30

\* names a caller may pass to setLOD: the five tiers and one that matches none
LODNames == {lodLevels[i].name : i \in 0..(lodCount - 1)} \cup {"Unknown"}

\* constructor: this.currentLOD = this.lodLevels[2]
StartIndex == 2

Max(a, b) == IF a > b THEN a ELSE b
Min(a, b) == IF a < b THEN a ELSE b

RECURSIVE SumSeq(_)
SumSeq(s) == IF s = <<>> THEN 0 ELSE Head(s) + SumSeq(Tail(s))

\* Array.prototype.slice(-n): the last n elements, all of them if fewer
SliceLast(s, n) == IF Len(s) <= n THEN s ELSE SubSeq(s, Len(s) - n + 1, Len(s))

\* variant: a full history that refuses the new sample
PushDropNewest(h, fps) ==
    IF Len(h) >= maxHistoryLength THEN h ELSE Append(h, fps)
\* push then shift when longer than maxHistoryLength
PushHistory(h, fps) ==
    LET p == Append(h, fps)
    IN IF Len(p) > maxHistoryLength THEN Tail(p) ELSE p

\* variant: a downgrade that drops two tiers
NewLODIndexSkip(h, cur) ==
    LET recentFPS == SliceLast(h, recentWindow)
        sum == SumSeq(recentFPS)
        n == Len(recentFPS)
    IN IF n > 0 /\ sum < (lodLevels[cur].targetFPS - 5) * n /\ cur > 0
       THEN Max(0, cur - 2)
       ELSE IF n > 0 /\ sum > (lodLevels[cur].targetFPS + 3) * n /\ cur < lodCount - 1
            THEN Min(lodCount - 1, cur + 1)
            ELSE cur
\* variant: the mean taken over the whole history
NewLODIndexWholeHistory(h, cur) ==
    LET sum == SumSeq(h)
        n == Len(h)
    IN IF n > 0 /\ sum < (lodLevels[cur].targetFPS - 5) * n /\ cur > 0
       THEN Max(0, cur - 1)
       ELSE IF n > 0 /\ sum > (lodLevels[cur].targetFPS + 3) * n /\ cur < lodCount - 1
            THEN Min(lodCount - 1, cur + 1)
            ELSE cur
\* variant: a downgrade as soon as the mean is below the target
NewLODIndexNoDeadBand(h, cur) ==
    LET recentFPS == SliceLast(h, recentWindow)
        sum == SumSeq(recentFPS)
        n == Len(recentFPS)
    IN IF n > 0 /\ sum < lodLevels[cur].targetFPS * n /\ cur > 0
       THEN Max(0, cur - 1)
       ELSE IF n > 0 /\ sum > (lodLevels[cur].targetFPS + 3) * n /\ cur < lodCount - 1
            THEN Min(lodCount - 1, cur + 1)
            ELSE cur
\* variant: a downgrade only below target - 3
NewLODIndexNarrowBand(h, cur) ==
    LET recentFPS == SliceLast(h, recentWindow)
        sum == SumSeq(recentFPS)
        n == Len(recentFPS)
    IN IF n > 0 /\ sum < (lodLevels[cur].targetFPS - 3) * n /\ cur > 0
       THEN Max(0, cur - 1)
       ELSE IF n > 0 /\ sum > (lodLevels[cur].targetFPS + 3) * n /\ cur < lodCount - 1
            THEN Min(lodCount - 1, cur + 1)
            ELSE cur
\* variant: an upgrade only above target + 5
NewLODIndexLateUpgrade(h, cur) ==
    LET recentFPS == SliceLast(h, recentWindow)
        sum == SumSeq(recentFPS)
        n == Len(recentFPS)
    IN IF n > 0 /\ sum < (lodLevels[cur].targetFPS - 5) * n /\ cur > 0
       THEN Max(0, cur - 1)
       ELSE IF n > 0 /\ sum > (lodLevels[cur].targetFPS + 5) * n /\ cur < lodCount - 1
            THEN Min(lodCount - 1, cur + 1)
            ELSE cur
\* evaluateLODChange, lines 125-138: the index the evaluation selects.
\* avgFPS < x is sum < x * length (length > 0; 0/0 is NaN and compares false).
NewLODIndex(h, cur) ==
    LET recentFPS == SliceLast(h, recentWindow)
        sum == SumSeq(recentFPS)
        n == Len(recentFPS)
    IN IF n > 0 /\ sum < (lodLevels[cur].targetFPS - 5) * n /\ cur > 0
       THEN Max(0, cur - 1)
       ELSE IF n > 0 /\ sum > (lodLevels[cur].targetFPS + 3) * n /\ cur < lodCount - 1
            THEN Min(lodCount - 1, cur + 1)
            ELSE cur

\* variant: the callback called with the tier that was left
CallbackOldLOD(old, new) == IF lodChangeCallback = "none" THEN <<>> ELSE <<old>>
\* this.lodChangeCallback?.(this.currentLOD): what the callback receives
InvokeCallback(old, new) == IF lodChangeCallback = "none" THEN <<>> ELSE <<new>>

\* What the callback finds when it runs while the controller holds tier lod
\* and history h: getCurrentLOD(), and the length and newest sample of
\* performanceHistory (-1 for no sample).
CallbackSees(lod, h) ==
    IF lodChangeCallback = "none"
    THEN <<>>
    ELSE <<[currentLOD |-> lod, length |-> Len(h),
            newest |-> IF Len(h) = 0 THEN -1 ELSE h[Len(h)]]>>

\* variant: the callback called before the new tier is stored, so that a
\* callback that throws leaves the old tier in place
EvaluateCallbackFirst(h) ==
    LET newLODIndex == NewLODIndex(h, currentLOD)
    IN IF newLODIndex # currentLOD
       THEN /\ callbackArgs' = InvokeCallback(currentLOD, newLODIndex)
            /\ callbackSaw' = CallbackSees(currentLOD, h)
            /\ threw' = (lodChangeCallback = "throws")
            /\ currentLOD' = IF lodChangeCallback = "throws" THEN currentLOD ELSE newLODIndex
       ELSE /\ currentLOD' = currentLOD
            /\ callbackArgs' = <<>>
            /\ callbackSaw' = <<>>
            /\ threw' = FALSE
\* evaluateLODChange, lines 140-146: apply the change, then call the callback
EvaluateLODChange(h) ==
    LET newLODIndex == NewLODIndex(h, currentLOD)
    IN IF newLODIndex # currentLOD
       THEN /\ currentLOD' = newLODIndex
            /\ callbackArgs' = InvokeCallback(currentLOD, newLODIndex)
            /\ callbackSaw' = CallbackSees(newLODIndex, h)
            /\ threw' = (lodChangeCallback = "throws")
       ELSE /\ currentLOD' = currentLOD
            /\ callbackArgs' = <<>>
            /\ callbackSaw' = <<>>
            /\ threw' = FALSE

\* variant: the evaluation run on every call, however short the history
UpdatePerformanceEager(fps) ==
    LET h == PushHistory(performanceHistory, fps)
    IN /\ performanceHistory' = h
       /\ EvaluateLODChange(h)
       /\ UNCHANGED lodChangeCallback
\* variant: no evaluation on the call that follows a tier change
UpdatePerformanceDebounced(fps) ==
    LET h == PushHistory(performanceHistory, fps)
    IN /\ performanceHistory' = h
       /\ IF Len(h) >= minSamples /\ callbackArgs = <<>>
          THEN EvaluateLODChange(h)
          ELSE /\ currentLOD' = currentLOD
               /\ callbackArgs' = <<>>
               /\ callbackSaw' = <<>>
               /\ threw' = FALSE
       /\ UNCHANGED lodChangeCallback
\* updatePerformance(metrics), with fps = metrics.fps
UpdatePerformance(fps) ==
    LET h == PushHistory(performanceHistory, fps)
    IN /\ performanceHistory' = h
       /\ IF Len(h) >= minSamples
          THEN EvaluateLODChange(h)
          ELSE /\ currentLOD' = currentLOD
               /\ callbackArgs' = <<>>
               /\ callbackSaw' = <<>>
               /\ threw' = FALSE
       /\ UNCHANGED lodChangeCallback

\* this.lodLevels.find(lod => lod.name === lodName): the index found, -1 if none
FindLOD(lodName) ==
    IF \E i \in 0..(lodCount - 1) : lodLevels[i].name = lodName
    THEN CHOOSE i \in 0..(lodCount - 1) : lodLevels[i].name = lodName
    ELSE -1


\* variant: a manual selection that also clears the history
SetLODClearingHistory(lodName) ==
    LET newLOD == FindLOD(lodName)
    IN /\ IF newLOD # -1 /\ newLOD # currentLOD
          THEN /\ currentLOD' = newLOD
               /\ callbackArgs' = InvokeCallback(currentLOD, newLOD)
               /\ callbackSaw' = CallbackSees(newLOD, performanceHistory)
               /\ threw' = (lodChangeCallback = "throws")
               /\ performanceHistory' = <<>>
          ELSE /\ currentLOD' = currentLOD
               /\ callbackArgs' = <<>>
               /\ callbackSaw' = <<>>
               /\ threw' = FALSE
               /\ performanceHistory' = performanceHistory
       /\ UNCHANGED lodChangeCallback

\* variant: a selection that takes whatever index the lookup gives
SetLODUnchecked(lodName) ==
    LET newLOD == FindLOD(lodName)
    IN /\ IF newLOD # currentLOD
          THEN /\ currentLOD' = newLOD
               /\ callbackArgs' = InvokeCallback(currentLOD, newLOD)
               /\ callbackSaw' = CallbackSees(newLOD, performanceHistory)
               /\ threw' = (lodChangeCallback = "throws")
          ELSE /\ currentLOD' = currentLOD
               /\ callbackArgs' = <<>>
               /\ callbackSaw' = <<>>
               /\ threw' = FALSE
       /\ UNCHANGED <<performanceHistory, lodChangeCallback>>
\* setLOD(lodName)
SetLOD(lodName) ==
    LET newLOD == FindLOD(lodName)
    IN /\ IF newLOD # -1 /\ newLOD # currentLOD
          THEN /\ currentLOD' = newLOD
               /\ callbackArgs' = InvokeCallback(currentLOD, newLOD)
               /\ callbackSaw' = CallbackSees(newLOD, performanceHistory)
               /\ threw' = (lodChangeCallback = "throws")
          ELSE /\ currentLOD' = currentLOD
               /\ callbackArgs' = <<>>
               /\ callbackSaw' = <<>>
               /\ threw' = FALSE
       /\ UNCHANGED <<performanceHistory, lodChangeCallback>>

\* variant: a controller that starts in the lowest tier
ConstructLODAtLowest(cb) ==
    /\ lodChangeCallback = cb
    /\ currentLOD = 0
    /\ performanceHistory = <<>>
    /\ callbackArgs = <<>>
    /\ callbackSaw = <<>>
    /\ threw = FALSE

\* new PerformanceLOD(lodChangeCallback)
ConstructLOD(cb) ==
    /\ lodChangeCallback = cb
    /\ currentLOD = StartIndex
    /\ performanceHistory = <<>>
    /\ callbackArgs = <<>>
    /\ callbackSaw = <<>>
    /\ threw = FALSE

----------------------------------------------------------------------------------------------------------------------------------------
(* DeviceCapabilities *)

\* What the host reports.  hardwareConcurrency and deviceMemory are 0 when the
\* browser does not define them (undefined and 0 are both falsy).  The
\* renderer string is kept as the set of the keywords it includes.
HardwareConcurrency == {0, 1, 2, 3, 8}
DeviceMemory == {0, 1, 2, 4}
MaxTextureSizes == {2048, 4095, 4096, 16384}
DevicePixelRatios == {1, 2, 3}
Renderers == {{}, {"intel"}, {"intel", "hd"}, {"gtx"}, {"rtx"}, {"radeon"},
              {"intel", "hd", "radeon"}}

Hosts ==
    {h \in [uaMobile : BOOLEAN, uaTablet : BOOLEAN,
            hardwareConcurrency : HardwareConcurrency, deviceMemory : DeviceMemory,
            gl : BOOLEAN, gl2 : BOOLEAN, maxTextureSize : MaxTextureSizes \cup {0},
            debugInfo : BOOLEAN, renderer : Renderers,
            devicePixelRatio : DevicePixelRatios] :
        /\ h.uaTablet => h.uaMobile
        /\ h.gl2 => h.gl
        /\ h.gl <=> h.maxTextureSize # 0
        /\ h.debugInfo => h.gl
        /\ ~h.debugInfo => h.renderer = {}}

\* x || 4
OrFour(x) == IF x = 0 THEN 4 ELSE x

\* detectDeviceInfo, lines 55-71: the GPU tier read from the renderer string
GpuTier(h) ==
    IF h.gl /\ h.debugInfo
    THEN IF "intel" \in h.renderer /\ "hd" \in h.renderer
         THEN "low"
         ELSE IF "gtx" \in h.renderer \/ "rtx" \in h.renderer \/ "radeon" \in h.renderer
              THEN "high"
              ELSE "medium"
    ELSE "medium"

\* detectDeviceInfo, lines 73-76
IsLowEnd(isMobile, cores, memoryGB, gpuTier, maxTextureSize) ==
    (isMobile /\ cores <= 2 /\ memoryGB <= 2) \/ gpuTier = "low" \/ maxTextureSize < 4096

\* detectDeviceInfo
DetectedInfo(h) ==
    LET cores == OrFour(h.hardwareConcurrency)
        memoryGB == OrFour(h.deviceMemory)
        maxTextureSize == IF h.gl THEN h.maxTextureSize ELSE 2048
        gpuTier == GpuTier(h)
    IN [isMobile |-> h.uaMobile,
        isTablet |-> h.uaTablet,
        isLowEnd |-> IsLowEnd(h.uaMobile, cores, memoryGB, gpuTier, maxTextureSize),
        hasWebGL2 |-> h.gl2,
        hasHighDPI |-> (2 * h.devicePixelRatio > 3),
        maxTextureSize |-> maxTextureSize,
        gpuTier |-> gpuTier,
        memoryGB |-> memoryGB,
        cores |-> cores]

\* the four records determineQualitySettings returns
LowEndSettings ==
    [particleCount |-> 200, geometrySegments |-> 8, enableComplexShaders |-> FALSE,
     enablePostProcessing |-> FALSE, shadowMapSize |-> 512, maxAnisotropy |-> 1,
     pixelRatio |-> 1]
MobileSettings(hasHighDPI) ==
    [particleCount |-> 500, geometrySegments |-> 16, enableComplexShaders |-> FALSE,
     enablePostProcessing |-> FALSE, shadowMapSize |-> 1024, maxAnisotropy |-> 2,
     pixelRatio |-> IF hasHighDPI THEN 2 ELSE 1]
HighSettings(devicePixelRatio) ==
    [particleCount |-> 2000, geometrySegments |-> 64, enableComplexShaders |-> TRUE,
     enablePostProcessing |-> TRUE, shadowMapSize |-> 2048, maxAnisotropy |-> 16,
     pixelRatio |-> Min(devicePixelRatio, 2)]
MediumSettings(devicePixelRatio) ==
    [particleCount |-> 1000, geometrySegments |-> 32, enableComplexShaders |-> TRUE,
     enablePostProcessing |-> FALSE, shadowMapSize |-> 1024, maxAnisotropy |-> 4,
     pixelRatio |-> Min(devicePixelRatio, 2)]

\* variant: the mobile row tested before the low-end row
DeterminedMobileFirst(info, devicePixelRatio) ==
    IF info.isMobile THEN MobileSettings(info.hasHighDPI)
    ELSE IF info.isLowEnd THEN LowEndSettings
    ELSE IF info.gpuTier = "high" THEN HighSettings(devicePixelRatio)
    ELSE MediumSettings(devicePixelRatio)
\* determineQualitySettings
DeterminedSettings(info, devicePixelRatio) ==
    IF info.isLowEnd THEN LowEndSettings
    ELSE IF info.isMobile THEN MobileSettings(info.hasHighDPI)
    ELSE IF info.gpuTier = "high" THEN HighSettings(devicePixelRatio)
    ELSE MediumSettings(devicePixelRatio)

NoInfo == [isMobile |-> FALSE, isTablet |-> FALSE, isLowEnd |-> FALSE,
           hasWebGL2 |-> FALSE, hasHighDPI |-> FALSE, maxTextureSize |-> 0,
           gpuTier |-> "unset", memoryGB |-> 0, cores |-> 0]
NoSettings == [particleCount |-> 0, geometrySegments |-> 0,
               enableComplexShaders |-> FALSE, enablePostProcessing |-> FALSE,
               shadowMapSize |-> 0, maxAnisotropy |-> 0, pixelRatio |-> 0]

\* new DeviceCapabilities() on host h, before the constructor body runs
NewDevice(h) ==
    /\ host = h
    /\ pcDevice = "new"
    /\ deviceInfo = NoInfo
    /\ qualitySettings = NoSettings

\* constructor, line 33
DetectDeviceInfo ==
    /\ pcDevice = "new"
    /\ deviceInfo' = DetectedInfo(host)
    /\ pcDevice' = "detected"
    /\ UNCHANGED <<host, qualitySettings>>

\* constructor, line 34
DetermineQualitySettings ==
    /\ pcDevice = "detected"
    /\ qualitySettings' = DeterminedSettings(deviceInfo, host.devicePixelRatio)
    /\ pcDevice' = "ready"
    /\ UNCHANGED <<host, deviceInfo>>

\* a desktop host, used where the profiler takes no part
DesktopHost ==
    [uaMobile |-> FALSE, uaTablet |-> FALSE, hardwareConcurrency |-> 8,
     deviceMemory |-> 4, gl |-> TRUE, gl2 |-> TRUE, maxTextureSize |-> 16384,
     debugInfo |-> FALSE, renderer |-> {}, devicePixelRatio |-> 1]

----------------------------------------------------------------------------
(* AudioAnalyzer: the band analysis *)

\* the constructor's config: fftSize and the three band ranges [start, end]
\* (smoothingTimeConstant takes no part in the analysis and is left out)
FftSizes == {4, 2 * MaxBins}
BassRanges == {<<0, 10>>, <<0, 1>>, <<0, 2>>}
MidRanges == {<<10, 100>>, <<1, 3>>, <<2, 2>>, <<3, 1>>}
TrebleRanges == {<<100, 512>>, <<2, 4>>, <<3, 6>>}
Configs ==
    [fftSize : FftSizes, bassRange : BassRanges, midRange : MidRanges,
     trebleRange : TrebleRanges]

\* the byte values the analyser node may write into a bin
Samples == {0, 255}

\* new Uint8Array(n): n zero bytes, indexed from 0
ZeroBuffer(n) == [i \in 0..(n - 1) |-> 0]
BufferLength(data) == Cardinality(DOMAIN data)

\* A level is the number num/den, or its square root when root is set, or NaN.
Zero == [nan |-> FALSE, num |-> 0, den |-> 1, root |-> FALSE]

\* the loop of calculateBandLevel: data[i] summed for start <= i < end
RECURSIVE SumRange(_, _, _)
SumRange(data, i, end) ==
    IF i >= end THEN 0 ELSE data[i] + SumRange(data, i + 1, end)

\* variant: the sum divided by the number of samples actually read
BandLevelInFrameCount(data, range) ==
    LET start == range[1]
        end == range[2]
        stop == Min(end, BufferLength(data))
        count == stop - start
    IN IF count > 0
       THEN [nan |-> start < 0 /\ start < stop,
             num |-> SumRange(data, Max(start, 0), stop),
             den |-> count * 255, root |-> FALSE]
       ELSE Zero
\* variant: the band width counted one short
BandLevelOffByOne(data, range) ==
    LET start == range[1]
        end == range[2]
        count == end - start - 1
        stop == Min(end, BufferLength(data))
    IN IF count > 0
       THEN [nan |-> start < 0 /\ start < stop,
             num |-> SumRange(data, Max(start, 0), stop),
             den |-> count * 255, root |-> FALSE]
       ELSE Zero
\* calculateBandLevel([start, end]); reading below index 0 yields undefined,
\* which turns the sum into NaN
CalculateBandLevel(data, range) ==
    LET start == range[1]
        end == range[2]
        count == end - start
        stop == Min(end, BufferLength(data))
    IN IF count > 0
       THEN [nan |-> start < 0 /\ start < stop,
             num |-> SumRange(data, Max(start, 0), stop),
             den |-> count * 255, root |-> FALSE]
       ELSE Zero

RECURSIVE SumSquares(_, _, _)
SumSquares(data, i, end) ==
    IF i >= end THEN 0 ELSE data[i] * data[i] + SumSquares(data, i + 1, end)

\* calculateOverallLevel: sqrt(sum / length) / 255 = sqrt(sum / (length * 255^2))
CalculateOverallLevel(data) ==
    LET n == BufferLength(data)
    IN [nan |-> n = 0, num |-> SumSquares(data, 0, n), den |-> n * 255 * 255,
        root |-> TRUE]

\* no result yet; a result carries the four levels and the frequency buffer
NoResult ==
    [returned |-> FALSE, bassLevel |-> Zero, midLevel |-> Zero, trebleLevel |-> Zero,
     overallLevel |-> Zero, frequencyData |-> <<>>]

\* The connect calls a session makes.  The source node, the stream and the
\* audio element a call creates carry the call's number as their id.
ConnectCalls == 1..MaxConnectCalls

\* new AudioAnalyzer(cfg)
NewAudioAnalyzer(cfg) ==
    /\ config = cfg
    /\ frequencyData = ZeroBuffer(cfg.fftSize \div 2)
    /\ analyser = FALSE
    /\ isInitialized = FALSE
    /\ audioResult = NoResult
    /\ source = 0 /\ currentStream = 0 /\ currentAudioElement = 0
    /\ connectedSources = {} /\ liveStreams = {} /\ playingElements = {}
    /\ connectPc = [c \in ConnectCalls |-> "idle"]

\* initialize(): creates the context and the analyser node once
Initialize ==
    /\ ~isInitialized
    /\ analyser' = TRUE
    /\ isInitialized' = TRUE
    /\ UNCHANGED <<config, frequencyData, audioResult, sourceVars>>

\* getFrequencyData() without an analyser node (lines 320-329)
GetFrequencyDataNoAnalyser ==
    /\ ~analyser
    /\ audioResult' = [returned |-> TRUE, bassLevel |-> Zero, midLevel |-> Zero,
                       trebleLevel |-> Zero, overallLevel |-> Zero,
                       frequencyData |-> frequencyData]
    /\ UNCHANGED <<config, frequencyData, analyser, isInitialized, sourceVars>>

\* getFrequencyData() with an analyser node (lines 331-350); the node writes
\* its current spectrum into this.frequencyData, which is also the buffer
\* the result refers to
GetFrequencyDataAnalysed ==
    /\ analyser
    /\ \E frame \in [DOMAIN frequencyData -> Samples] :
          /\ frequencyData' = frame
          /\ audioResult' =
                [returned |-> TRUE,
                 bassLevel |-> CalculateBandLevel(frame, config.bassRange),
                 midLevel |-> CalculateBandLevel(frame, config.midRange),
                 trebleLevel |-> CalculateBandLevel(frame, config.trebleRange),
                 overallLevel |-> CalculateOverallLevel(frame),
                 frequencyData |-> frame]
    /\ UNCHANGED <<config, analyser, isInitialized, sourceVars>>

\* the analyzer's source fields and the browser's nodes and streams as one record
SourceState ==
    [source |-> source, currentStream |-> currentStream,
     currentAudioElement |-> currentAudioElement,
     connectedSources |-> connectedSources, liveStreams |-> liveStreams,
     playingElements |-> playingElements]

SetSourceState(st) ==
    /\ source' = st.source
    /\ currentStream' = st.currentStream
    /\ currentAudioElement' = st.currentAudioElement
    /\ connectedSources' = st.connectedSources
    /\ liveStreams' = st.liveStreams
    /\ playingElements' = st.playingElements

\* disconnectCurrentSource(): disconnects the recorded source node, stops
\* the tracks of the recorded stream, pauses and drops the recorded element
DisconnectCurrentSource(st) ==
    [source |-> 0, currentStream |-> 0, currentAudioElement |-> 0,
     connectedSources |-> st.connectedSources \ {st.source},
     liveStreams |-> st.liveStreams \ {st.currentStream},
     playingElements |-> st.playingElements \ {st.currentAudioElement}]

\* dispose()
Dispose ==
    /\ analyser' = FALSE
    /\ isInitialized' = FALSE
    /\ SetSourceState(DisconnectCurrentSource(SourceState))
    /\ UNCHANGED <<config, frequencyData, audioResult, connectPc>>

\* if (!this.isInitialized) await this.initialize(): the context is running,
\* so initialize() runs to its end when it is called
InitializeIfNeeded ==
    /\ analyser' = TRUE
    /\ isInitialized' = TRUE

\* connectMicrophone(), call c, up to await this.checkMicrophonePermissions()
MicStart(c) ==
    /\ connectPc[c] = "idle"
    /\ InitializeIfNeeded
    /\ connectPc' = [connectPc EXCEPT ![c] = "micCheck"]
    /\ SetSourceState(SourceState)
    /\ UNCHANGED <<config, frequencyData, audioResult>>

\* connectMicrophone(), call c, from the permission check to the first
\* await navigator.mediaDevices.getUserMedia(...)
MicChecked(c, available) ==
    /\ connectPc[c] = "micCheck"
    /\ IF available
       THEN /\ SetSourceState(DisconnectCurrentSource(SourceState))
            /\ connectPc' = [connectPc EXCEPT ![c] = "micStream"]
       ELSE /\ SetSourceState(SourceState)
            /\ connectPc' = [connectPc EXCEPT ![c] = "failed"]
    /\ UNCHANGED <<config, frequencyData, analyser, isInitialized, audioResult>>

\* connectMicrophone(), call c, after getUserMedia: with a live stream the
\* source node is created, connected and recorded together with the stream;
\* when every configuration is refused the call throws
MicStreamResolved(c, granted) ==
    /\ connectPc[c] = "micStream"
    /\ analyser
    /\ IF granted
       THEN /\ SetSourceState([SourceState EXCEPT
                                  !.liveStreams = @ \cup {c},
                                  !.source = c,
                                  !.connectedSources = @ \cup {c},
                                  !.currentStream = c])
            /\ connectPc' = [connectPc EXCEPT ![c] = "done"]
       ELSE /\ SetSourceState(SourceState)
            /\ connectPc' = [connectPc EXCEPT ![c] = "failed"]
    /\ UNCHANGED <<config, frequencyData, analyser, isInitialized, audioResult>>

\* connectAudioFile(file), call c, up to its first await, entered with the
\* source fields st: the initialisation when it is still due, else the
\* disconnect and the wait for loadeddata
FileStartFrom(st, c) ==
    /\ connectPc[c] = "idle"
    /\ IF isInitialized
       THEN /\ SetSourceState(DisconnectCurrentSource(st))
            /\ connectPc' = [connectPc EXCEPT ![c] = "fileLoad"]
            /\ UNCHANGED <<analyser, isInitialized>>
       ELSE /\ InitializeIfNeeded
            /\ SetSourceState(st)
            /\ connectPc' = [connectPc EXCEPT ![c] = "fileInit"]
    /\ UNCHANGED <<config, frequencyData, audioResult>>

FileStart(c) == FileStartFrom(SourceState, c)

\* connectAudioFile(file), call c, from the end of the initialisation to the
\* wait for loadeddata
FileInitialized(c) ==
    /\ connectPc[c] = "fileInit"
    /\ SetSourceState(DisconnectCurrentSource(SourceState))
    /\ connectPc' = [connectPc EXCEPT ![c] = "fileLoad"]
    /\ UNCHANGED <<config, frequencyData, analyser, isInitialized, audioResult>>

\* connectAudioFile(file), call c, after the element's loadeddata or error
\* event: the element source is created, connected and recorded together
\* with the element, or the call throws
FileLoaded(c, loaded) ==
    /\ connectPc[c] = "fileLoad"
    /\ analyser
    /\ IF loaded
       THEN /\ SetSourceState([SourceState EXCEPT
                                  !.source = c,
                                  !.connectedSources = @ \cup {c},
                                  !.currentAudioElement = c])
            /\ connectPc' = [connectPc EXCEPT ![c] = "done"]
       ELSE /\ SetSourceState(SourceState)
            /\ connectPc' = [connectPc EXCEPT ![c] = "failed"]
    /\ UNCHANGED <<config, frequencyData, analyser, isInitialized, audioResult>>

\* an analyser with the smallest frame, used where the analysis takes no part
SmallConfig ==
    [fftSize |-> 4, bassRange |-> <<0, 10>>, midRange |-> <<10, 100>>,
     trebleRange |-> <<100, 512>>]

----------------------------------------------------------------------------
(* VisualizerEngine: the scene.  Particle coordinates and velocities are   *)
(* kept in tenths of a scene unit, band levels in percent, the vertex      *)
(* displacement factor in units of 1/Scale; products that leave this grid  *)
(* are truncated towards zero.                                             *)

\* the displacement factor 1.0
Scale == 100000

\* config fields a caller passes to the constructor or to updateConfig
ParticleCounts == {-1, 0, 1, 2}
GeometrySegments == {1, 2}
MorphingIntensities == {1, 2}
ConfigUpdates ==
    {<<"particleCount", n>> : n \in ParticleCounts}
        \cup {<<"geometrySegments", g>> : g \in {0} \cup GeometrySegments}
        \cup {<<"morphingIntensity", m>> : m \in MorphingIntensities}

\* what the analyser hands to updateVisualization: silence, or a loud frame
Silence == [bassLevel |-> 0, midLevel |-> 0, trebleLevel |-> 0, overallLevel |-> 0]
Loud == [bassLevel |-> 100, midLevel |-> 50, trebleLevel |-> 20, overallLevel |-> 60]
AudioInputs == {Silence, Loud}
\* readings of clock.getElapsedTime(), in seconds
Times == {0, 1}

\* unit directions (sin(phi)cos(theta), sin(phi)sin(theta), cos(phi)), in fifths
Directions == {<<5, 0, 0>>, <<3, 4, 0>>}
\* 3 + Math.random() * 2, in tenths
InitialRadii == {45}
\* 3 + Math.random(), in tenths
ResetRadii == {30, 35}
\* (Math.random() - 0.5) * audioForce * deltaTime per axis, in tenths; the
\* frame time is unbounded after a pause of the page
JitterVectors == {<<0, 0, 0>>, <<25, 0, 0>>}

\* new THREE.IcosahedronGeometry(1.5, segments): the position array, here a
\* mesh of segments + 2 vertices on the sphere of radius 1.5
MeshVertexCount(segments) == segments + 2
MeshVertex(v) ==
    IF v = 0 THEN <<15, 0, 0>>
    ELSE IF v = 1 THEN <<0, 15, 0>>
    ELSE IF v = 2 THEN <<0, 0, 15>>
    ELSE <<-15, 0, 0>>
IcosahedronPositions(segments) ==
    [k \in 0..(3 * MeshVertexCount(segments) - 1) |-> MeshVertex(k \div 3)[(k % 3) + 1]]

\* Math.sin(time * 2 + vertexIndex * 0.1), in hundredths
SinCenti(time, vertexIndex) ==
    LET a == 20 * time + vertexIndex
    IN IF a = 0 THEN 0 ELSE IF a = 1 THEN 10 ELSE IF a = 2 THEN 20
       ELSE IF a = 3 THEN 30 ELSE IF a = 20 THEN 91 ELSE IF a = 21 THEN 86
       ELSE IF a = 22 THEN 81 ELSE 75

\* the displacement of one vertex (lines 369-390)
Displacement(vertexIndex, vertexCount, audioData, time, morphingIntensity) ==
    LET band ==
            IF 100 * vertexIndex < 33 * vertexCount
            THEN audioData.bassLevel * morphingIntensity * 500
            ELSE IF 100 * vertexIndex < 66 * vertexCount
                 THEN audioData.midLevel * morphingIntensity * 300
                 ELSE audioData.trebleLevel * morphingIntensity * 400
    IN Scale + band + SinCenti(time, vertexIndex) * audioData.overallLevel

\* variant: the displacement applied to the working buffer's last content
MorphFromWorking(original, working, audioData, time, morphingIntensity) ==
    [k \in DOMAIN working |->
        (working[k] \div Scale)
            * Displacement(k \div 3, BufferLength(working) \div 3, audioData, time,
                           morphingIntensity)]
\* updateGeometryMorphing: the new content of the working position array
UpdateGeometryMorphing(original, working, audioData, time, morphingIntensity) ==
    [k \in DOMAIN working |->
        original[k]
            * Displacement(k \div 3, BufferLength(working) \div 3, audioData, time,
                           morphingIntensity)]

\* updateMaterialProperties: colour, emissive and opacity are functions of
\* the elapsed time and of the bass and overall levels
UpdateMaterialProperties(audioData, time) ==
    <<"hsl", time, audioData.bassLevel, audioData.overallLevel>>

\* updateCameraMovement: the orbit position is a function of the elapsed
\* time and of the overall level
UpdateCameraMovement(audioData, time) == <<"orbit", time, audioData.overallLevel>>

\* the uniforms (ShaderMaterial) or the point size (PointsMaterial), and the
\* opacity, written at the end of updateParticleSystem
UpdateParticleMaterial(material, audioData, time) ==
    IF material = "shader" THEN <<"uniforms", audioData, time>>
    ELSE <<"size", audioData.trebleLevel, audioData.midLevel>>

\* particle i of a flat buffer of xyz triples
Vec(a, i) == <<a[3 * i], a[3 * i + 1], a[3 * i + 2]>>
SetVec(a, i, v) == [k \in DOMAIN a |-> IF k \div 3 = i THEN v[(k % 3) + 1] ELSE a[k]]
AddVec(u, v) == <<u[1] + v[1], u[2] + v[2], u[3] + v[3]>>
\* the square of the distance from the origin
Norm2(v) == v[1] * v[1] + v[2] * v[2] + v[3] * v[3]
TruncDiv(x, d) == IF x >= 0 THEN x \div d ELSE -((-x) \div d)

\* velocity *= 0.99
Damp(v) == <<TruncDiv(v[1] * 99, 100), TruncDiv(v[2] * 99, 100), TruncDiv(v[3] * 99, 100)>>

\* variant: the reset radius drawn like the initial radius, 3 + Math.random() * 2
OnSphereWide(radius, direction) ==
    <<((2 * radius - 30) * direction[1]) \div 5, ((2 * radius - 30) * direction[2]) \div 5,
      ((2 * radius - 30) * direction[3]) \div 5>>
\* radius * (sin(phi)cos(theta), sin(phi)sin(theta), cos(phi))
OnSphere(radius, direction) ==
    <<(radius * direction[1]) \div 5, (radius * direction[2]) \div 5,
      (radius * direction[3]) \div 5>>

\* the random jitter of one frame: none without audio force
Jitters(audioData) ==
    IF audioData.overallLevel = 0 THEN {<<0, 0, 0>>} ELSE JitterVectors

\* one pass of the particle loop body (lines 440-473) for index i; st holds
\* the two buffers, the positions as integrated before the boundary check,
\* and whether an index past the end of the buffers was used.  A read past
\* the end yields undefined and a write past the end is dropped.
ParticleBody(i, st, audioData) ==
    IF 3 * i + 2 >= BufferLength(st.pos)
    THEN {[st EXCEPT !.pastEnd = TRUE]}
    ELSE {LET v == Damp(AddVec(Vec(st.vel, i), j))
              p == AddVec(Vec(st.pos, i), v)
          IN [pos |-> SetVec(st.pos, i,
                             IF Norm2(p) > 80 * 80 THEN OnSphere(t[1], t[2]) ELSE p),
              vel |-> SetVec(st.vel, i, v),
              integ |-> Append(st.integ, p),
              pastEnd |-> st.pastEnd] :
          j \in Jitters(audioData), t \in ResetRadii \X Directions}

\* for (let i = 0; i < this.config.particleCount; i++): every outcome
RECURSIVE ParticleLoop(_, _, _, _)
ParticleLoop(i, count, st, audioData) ==
    IF i >= count THEN {st}
    ELSE UNION {ParticleLoop(i + 1, count, s, audioData) :
                   s \in ParticleBody(i, st, audioData)}

\* the position buffers setupParticleSystem may fill for n particles
Placements(n) ==
    {[k \in 0..(3 * n - 1) |-> OnSphere(f[k \div 3][1], f[k \div 3][2])[(k % 3) + 1]] :
        f \in [0..(n - 1) -> InitialRadii \X Directions]}

\* the parts of the scene an updateVisualization call writes
AllParts == {"mesh", "material", "particles", "particleMaterial", "camera"}

\* a field that was never assigned
Undefined == <<"undefined">>

\* new VisualizerEngine(container, cfg), up to the first await of
\* setupParticleSystem: new Float32Array(n) throws for n < 0, which rejects
\* the setup and leaves the buffers and the material unassigned
NewVisualizerEngine(cfg) ==
    /\ vizConfig = cfg
    /\ isAnimating = FALSE
    /\ originalVertices = IcosahedronPositions(cfg.geometrySegments)
    /\ meshPositions = [k \in DOMAIN originalVertices |-> originalVertices[k] * Scale]
    /\ icosphereMaterial = <<"initial">>
    /\ camera = <<"initial">>
    /\ IF cfg.particleCount < 0
       THEN particlePositions = Undefined /\ particleVelocities = Undefined
       ELSE /\ particlePositions \in Placements(cfg.particleCount)
            /\ particleVelocities = [k \in DOMAIN particlePositions |-> 0]
    /\ particleMaterial = "undefined"
    /\ particleUniforms = <<"initial">>
    /\ particleSystem = "undefined"
    /\ disposed = {}
    /\ unassignedRead = "none"
    /\ vizWrites = {} /\ vizThrew = FALSE /\ integrated = <<>> /\ pastEnd = FALSE

\* setupParticleSystem after its awaits: the shader material, or the points
\* material when the shader material cannot be created
FinishParticleSetup ==
    /\ particlePositions # Undefined
    /\ particleMaterial = "undefined"
    /\ particleMaterial' \in {"shader", "points"}
    /\ particleSystem' = "visible"
    /\ vizThrew' = FALSE
    /\ unassignedRead' = "none"
    /\ UNCHANGED <<vizConfig, isAnimating, originalVertices, meshPositions,
                   icosphereMaterial, camera, particlePositions, particleVelocities,
                   particleUniforms, disposed, vizWrites, integrated, pastEnd>>

\* startAnimation()
StartAnimation ==
    /\ isAnimating' = TRUE
    /\ vizThrew' = FALSE
    /\ unassignedRead' = "none"
    /\ UNCHANGED <<vizConfig, originalVertices, meshPositions, icosphereMaterial,
                   camera, particlePositions, particleVelocities, particleMaterial,
                   particleUniforms, particleSystem, disposed, vizWrites, integrated,
                   pastEnd>>

\* stopAnimation()
StopAnimation ==
    /\ isAnimating' = FALSE
    /\ vizThrew' = FALSE
    /\ unassignedRead' = "none"
    /\ UNCHANGED <<vizConfig, originalVertices, meshPositions, icosphereMaterial,
                   camera, particlePositions, particleVelocities, particleMaterial,
                   particleUniforms, particleSystem, disposed, vizWrites, integrated,
                   pastEnd>>

\* updateConfig({field: value}): this.config = {...this.config, ...newConfig}
UpdateConfig(field, value) ==
    /\ vizConfig' = [vizConfig EXCEPT ![field] = value]
    /\ vizThrew' = FALSE
    /\ unassignedRead' = "none"
    /\ UNCHANGED <<isAnimating, originalVertices, meshPositions, icosphereMaterial,
                   camera, particlePositions, particleVelocities, particleMaterial,
                   particleUniforms, particleSystem, disposed, vizWrites, integrated,
                   pastEnd>>

\* updateVisualization(audioData), with time the clock's elapsed time.  The
\* four updates run in order with no try/catch: updateParticleSystem throws
\* a TypeError at positions.array when the position attribute was never set,
\* and at this.particleMaterial.opacity when the material is not yet assigned.
UpdateVisualization(audioData, time) ==
    IF ~isAnimating
    THEN /\ vizWrites' = {} /\ vizThrew' = FALSE
         /\ unassignedRead' = "none"
         /\ integrated' = <<>> /\ pastEnd' = FALSE
         /\ UNCHANGED <<vizConfig, isAnimating, originalVertices, meshPositions,
                        icosphereMaterial, camera, particlePositions,
                        particleVelocities, particleMaterial, particleUniforms,
                        particleSystem, disposed>>
    ELSE /\ meshPositions' =
                UpdateGeometryMorphing(originalVertices, meshPositions, audioData, time,
                                       vizConfig.morphingIntensity)
         /\ icosphereMaterial' = UpdateMaterialProperties(audioData, time)
         /\ IF particlePositions = Undefined
            THEN /\ vizWrites' = {"mesh", "material"} /\ vizThrew' = TRUE
                 /\ unassignedRead' = "position"
                 /\ integrated' = <<>> /\ pastEnd' = FALSE
                 /\ UNCHANGED <<particlePositions, particleVelocities,
                                particleUniforms, camera>>
            ELSE \E r \in ParticleLoop(0, vizConfig.particleCount,
                                       [pos |-> particlePositions,
                                        vel |-> particleVelocities,
                                        integ |-> <<>>, pastEnd |-> FALSE],
                                       audioData) :
                    /\ particlePositions' = r.pos
                    /\ particleVelocities' = r.vel
                    /\ integrated' = r.integ
                    /\ pastEnd' = r.pastEnd
                    /\ IF particleMaterial = "undefined"
                       THEN /\ vizWrites' = {"mesh", "material", "particles"}
                            /\ vizThrew' = TRUE
                            /\ unassignedRead' = "particleMaterial"
                            /\ UNCHANGED <<particleUniforms, camera>>
                       ELSE /\ particleUniforms' =
                                  UpdateParticleMaterial(particleMaterial, audioData, time)
                            /\ camera' = UpdateCameraMovement(audioData, time)
                            /\ vizWrites' = AllParts
                            /\ vizThrew' = FALSE
                            /\ unassignedRead' = "none"
         /\ UNCHANGED <<vizConfig, isAnimating, originalVertices, particleMaterial,
                        particleSystem, disposed>>

\* toggleParticles(): this.particleSystem.visible = !this.particleSystem.visible;
\* a TypeError while particleSystem is unassigned
ToggleParticles ==
    /\ IF particleSystem = "undefined"
       THEN /\ vizThrew' = TRUE
            /\ unassignedRead' = "particleSystem"
            /\ UNCHANGED particleSystem
       ELSE /\ vizThrew' = FALSE
            /\ unassignedRead' = "none"
            /\ particleSystem' = IF particleSystem = "visible" THEN "hidden" ELSE "visible"
    /\ UNCHANGED <<vizConfig, isAnimating, originalVertices, meshPositions,
                   icosphereMaterial, camera, particlePositions, particleVelocities,
                   particleMaterial, particleUniforms, disposed, vizWrites, integrated,
                   pastEnd>>

\* dispose(): stops the animation and releases the resources in order;
\* this.particleMaterial.dispose() is a TypeError while the material is
\* unassigned, which leaves the material and the renderer unreleased
DisposeEngine ==
    /\ isAnimating' = FALSE
    /\ IF particleMaterial = "undefined"
       THEN /\ disposed' = disposed \cup {"icosphereGeometry", "particleGeometry",
                                          "icosphereMaterial"}
            /\ vizThrew' = TRUE
            /\ unassignedRead' = "particleMaterial"
       ELSE /\ disposed' = {"icosphereGeometry", "particleGeometry", "icosphereMaterial",
                            "particleMaterial", "renderer"}
            /\ vizThrew' = FALSE
            /\ unassignedRead' = "none"
    /\ UNCHANGED <<vizConfig, originalVertices, meshPositions, icosphereMaterial,
                   camera, particlePositions, particleVelocities, particleMaterial,
                   particleUniforms, particleSystem, vizWrites, integrated, pastEnd>>

\* getParticleCount()
GetParticleCount == vizConfig.particleCount

\* the caller's bookkeeping right after construction
NoProbe == [m \in MorphingIntensities |-> <<>>]
SceneCallerInit == updates = 0 /\ probeOut = NoProbe

\* an engine without particles, used where the scene takes no part
EmptyScene == [particleCount |-> 0, geometrySegments |-> 1, morphingIntensity |-> 1]
ParkedScene == NewVisualizerEngine(EmptyScene) /\ SceneCallerInit

----------------------------------------------------------------------------
(* AudioVisualizerApp: the render loop.  Frame callback ids start at 1 and *)
(* 0 stands for a null animationFrameId.                                   *)

\* the loop's fields and the browser's list of frame callbacks as one record
LoopState ==
    [isRunning |-> isRunning, animationFrameId |-> animationFrameId,
     pendingFrames |-> pendingFrames, nextFrameId |-> nextFrameId,
     framesRun |-> framesRun, frameCalls |-> frameCalls]

SetLoopState(st) ==
    /\ isRunning' = st.isRunning
    /\ animationFrameId' = st.animationFrameId
    /\ pendingFrames' = st.pendingFrames
    /\ nextFrameId' = st.nextFrameId
    /\ framesRun' = st.framesRun
    /\ frameCalls' = st.frameCalls

\* renderLoop, lines 129-149: the calls a frame makes on the monitor, the
\* analyzer and the scene, in order; a frame that throws does so inside
\* updateVisualization
FrameCalls(throws) ==
    <<"startFrame", "startAudioProcessing", "getFrequencyData", "endAudioProcessing",
      "updateVisualization">>
    \o (IF throws THEN <<>> ELSE <<"render", "endFrame", "updatePerformanceHUD">>)

\* renderLoop: one frame, then requestAnimationFrame(this.renderLoop) unless
\* a step of the frame threw
RenderLoop(st, throws) ==
    IF ~st.isRunning THEN st
    ELSE IF throws THEN [st EXCEPT !.framesRun = @ + 1,
                                   !.frameCalls = FrameCalls(TRUE)]
    ELSE [st EXCEPT !.framesRun = @ + 1,
                    !.frameCalls = FrameCalls(FALSE),
                    !.animationFrameId = st.nextFrameId,
                    !.pendingFrames = @ \cup {st.nextFrameId},
                    !.nextFrameId = @ + 1]

\* variant: a start that does not look at isRunning
StartRenderLoopUnguarded(throws) ==
    /\ SetLoopState(RenderLoop([LoopState EXCEPT !.isRunning = TRUE], throws))
    /\ framesInRefresh' = framesInRefresh
\* startRenderLoop()
StartRenderLoop(throws) ==
    /\ IF isRunning
       THEN SetLoopState(LoopState)
       ELSE SetLoopState(RenderLoop([LoopState EXCEPT !.isRunning = TRUE], throws))
    /\ framesInRefresh' = framesInRefresh

\* stopRenderLoop()
StopRenderLoop ==
    /\ isRunning' = FALSE
    /\ IF animationFrameId # 0
       THEN /\ pendingFrames' = pendingFrames \ {animationFrameId}
            /\ animationFrameId' = 0
       ELSE UNCHANGED <<pendingFrames, animationFrameId>>
    /\ UNCHANGED <<nextFrameId, framesRun, framesInRefresh, frameCalls>>

\* the browser runs the callbacks that are pending when a refresh begins, in
\* the order they were requested
RECURSIVE RunCallbacks(_, _, _)
RunCallbacks(ids, st, throws) ==
    IF ids = {} THEN st
    ELSE LET id == CHOOSE i \in ids : \A j \in ids : i <= j
         IN RunCallbacks(ids \ {id},
                         RenderLoop([st EXCEPT !.pendingFrames = @ \ {id}], throws),
                         throws)

\* one display refresh
Refresh(throws) ==
    /\ pendingFrames # {}
    /\ LET st == RunCallbacks(pendingFrames, LoopState, throws)
       IN /\ SetLoopState(st)
          /\ framesInRefresh' = st.framesRun - framesRun

\* new UIController(audioAnalyzer, visualizer)
NewUIController ==
    /\ currentAudioMode = "none"
    /\ isPlaying = FALSE
    /\ uiPc = [h \in ConnectCalls |-> "idle"]

\* new AudioVisualizerApp()
NewApp ==
    /\ isRunning = FALSE /\ animationFrameId = 0 /\ pendingFrames = {}
    /\ nextFrameId = 1 /\ framesRun = 0 /\ framesInRefresh = 0
    /\ frameCalls = <<>>
    /\ lastLoopCall = "constructor"
    /\ NewUIController

----------------------------------------------------------------------------
(* UIController: the audio controls.  A microphone-toggle or file-upload   *)
(* handler h drives the analyzer's connect call h.                         *)

\* stopCurrentAudio(), the element: paused and rewound in file mode
PausedCurrent(st) ==
    IF currentAudioMode = "file"
    THEN [st EXCEPT !.playingElements = @ \ {st.currentAudioElement}]
    ELSE st

\* stopCurrentAudio(), the controller and the visualizer
StopCurrentAudio ==
    /\ currentAudioMode' = "none"
    /\ isPlaying' = FALSE
    /\ StopAnimation
    /\ UNCHANGED <<updates, probeOut>>

\* handleMicrophoneToggle(), handler h, up to
\* await this.audioAnalyzer.checkMicrophonePermissions()
HandleMicrophoneToggle(h) ==
    /\ uiPc[h] = "idle"
    /\ IF currentAudioMode = "microphone"
       THEN /\ StopCurrentAudio
            /\ SetSourceState(PausedCurrent(SourceState))
            /\ uiPc' = [uiPc EXCEPT ![h] = "done"]
            /\ UNCHANGED <<config, frequencyData, analyser, isInitialized, audioResult,
                           connectPc>>
       ELSE /\ uiPc' = [uiPc EXCEPT ![h] = "permission"]
            /\ UNCHANGED <<currentAudioMode, isPlaying, audioVars, sceneVars>>

\* handleMicrophoneToggle(), handler h, after the permission check: the
\* error path, or initialize() and the call of connectMicrophone()
MicrophonePermission(h, available) ==
    /\ uiPc[h] = "permission"
    /\ IF available
       THEN /\ MicStart(h)
            /\ uiPc' = [uiPc EXCEPT ![h] = "connecting"]
       ELSE /\ uiPc' = [uiPc EXCEPT ![h] = "done"]
            /\ UNCHANGED audioVars
    /\ UNCHANGED <<currentAudioMode, isPlaying, sceneVars>>

\* handleMicrophoneToggle(), handler h, while connectMicrophone() makes its
\* own permission check; a refusal ends the handler in its catch block
MicrophoneChecked(h, available) ==
    /\ uiPc[h] = "connecting"
    /\ MicChecked(h, available)
    /\ uiPc' = [uiPc EXCEPT ![h] = IF available THEN "connecting" ELSE "done"]
    /\ UNCHANGED <<currentAudioMode, isPlaying, sceneVars>>

\* handleMicrophoneToggle(), handler h, after connectMicrophone() settled
MicrophoneConnected(h, granted) ==
    /\ uiPc[h] = "connecting"
    /\ MicStreamResolved(h, granted)
    /\ IF granted
       THEN /\ currentAudioMode' = "microphone"
            /\ isPlaying' = TRUE
            /\ StartAnimation
            /\ UNCHANGED <<updates, probeOut>>
       ELSE UNCHANGED <<currentAudioMode, isPlaying, sceneVars>>
    /\ uiPc' = [uiPc EXCEPT ![h] = "done"]

\* handleFileUpload(event) with a file, handler h, up to the first await of
\* connectAudioFile(file)
HandleFileUpload(h) ==
    /\ uiPc[h] = "idle"
    /\ StopCurrentAudio
    /\ FileStartFrom(PausedCurrent(SourceState), h)
    /\ uiPc' = [uiPc EXCEPT ![h] = "connecting"]

\* handleFileUpload, handler h, while connectAudioFile finishes initialize()
FileUploadInitialized(h) ==
    /\ uiPc[h] = "connecting"
    /\ FileInitialized(h)
    /\ UNCHANGED <<currentAudioMode, isPlaying, uiPc, sceneVars>>

\* handleFileUpload, handler h, after connectAudioFile(file) settled: the
\* mode becomes "file" with isPlaying false, the visualizer is not touched
FileUploadLoaded(h, loaded) ==
    /\ uiPc[h] = "connecting"
    /\ FileLoaded(h, loaded)
    /\ IF loaded
       THEN currentAudioMode' = "file" /\ isPlaying' = FALSE
       ELSE UNCHANGED <<currentAudioMode, isPlaying>>
    /\ uiPc' = [uiPc EXCEPT ![h] = "done"]
    /\ UNCHANGED sceneVars

\* handlePlay()
HandlePlay ==
    /\ IF currentAudioMode = "file" /\ currentAudioElement # 0
       THEN /\ playingElements' = playingElements \cup {currentAudioElement}
            /\ isPlaying' = TRUE
            /\ StartAnimation
            /\ UNCHANGED <<updates, probeOut>>
       ELSE UNCHANGED <<playingElements, isPlaying, sceneVars>>
    /\ UNCHANGED <<currentAudioMode, uiPc, config, frequencyData, analyser,
                   isInitialized, audioResult, source, currentStream,
                   currentAudioElement, connectedSources, liveStreams, connectPc>>

\* handlePause()
HandlePause ==
    /\ IF currentAudioMode = "file" /\ currentAudioElement # 0
       THEN /\ playingElements' = playingElements \ {currentAudioElement}
            /\ isPlaying' = FALSE
            /\ StopAnimation
            /\ UNCHANGED <<updates, probeOut>>
       ELSE UNCHANGED <<playingElements, isPlaying, sceneVars>>
    /\ UNCHANGED <<currentAudioMode, uiPc, config, frequencyData, analyser,
                   isInitialized, audioResult, source, currentStream,
                   currentAudioElement, connectedSources, liveStreams, connectPc>>

\* handleStop()
HandleStop ==
    /\ StopCurrentAudio
    /\ SetSourceState(PausedCurrent(SourceState))
    /\ UNCHANGED <<uiPc, config, frequencyData, analyser, isInitialized, audioResult,
                   connectPc>>

\* the 'ended' listener that handleFileUpload puts on its element e
ElementEnded(e) ==
    /\ e \in playingElements
    /\ playingElements' = playingElements \ {e}
    /\ isPlaying' = FALSE
    /\ StopAnimation
    /\ UNCHANGED <<updates, probeOut>>
    /\ UNCHANGED <<currentAudioMode, uiPc, config, frequencyData, analyser,
                   isInitialized, audioResult, source, currentStream,
                   currentAudioElement, connectedSources, liveStreams, connectPc>>

----------------------------------------------------------------------------
(* Spec: any caller. Samples arrive in blocks of BlockLen equal values. *)

\* the caller's bookkeeping right after construction
CallerInit ==
    /\ calls = 0 /\ startLOD = -1 /\ lastFrom = -1 /\ manualAt = -1 /\ blockPos = 0
    /\ lastCall = <<"constructor">>

Init ==
    /\ \E cb \in {"none", "returns", "throws"} : ConstructLOD(cb)
    /\ CallerInit /\ fpsA = 0 /\ fpsB = 0
    /\ NewDevice(DesktopHost) /\ NewAudioAnalyzer(SmallConfig) /\ ParkedScene /\ NewApp

Record ==
    \E fps \in FpsValues :
        /\ blockPos # 0 => fps = performanceHistory[Len(performanceHistory)]
        /\ UpdatePerformance(fps)
        /\ blockPos' = (blockPos + 1) % BlockLen
        /\ lastCall' = <<"updatePerformance", fps>>
        /\ UNCHANGED <<calls, fpsA, fpsB, startLOD, lastFrom, manualAt, deviceVars, audioVars, sceneVars, loopVars>>

Select ==
    \E lodName \in LODNames :
        /\ SetLOD(lodName)
        /\ lastCall' = <<"setLOD", lodName>>
        /\ UNCHANGED <<calls, fpsA, fpsB, startLOD, lastFrom, manualAt, blockPos, deviceVars,
                       audioVars, sceneVars, loopVars>>

Next == Record \/ Select

Spec == Init /\ [][Next]_vars

----------------------------------------------------------------------------
(* SpecSteady: the caller picks a starting tier, then feeds one fps value *)
(* on every call.                                                         *)

InitSteady ==
    /\ ConstructLOD("returns")
    /\ CallerInit
    /\ fpsA \in SteadyFps /\ fpsB = fpsA
    /\ NewDevice(DesktopHost) /\ NewAudioAnalyzer(SmallConfig) /\ ParkedScene /\ NewApp

SteadySelect ==
    /\ calls = 0
    /\ \E lodName \in LODNames :
          /\ SetLOD(lodName)
          /\ lastCall' = <<"setLOD", lodName>>
    /\ UNCHANGED <<calls, fpsA, fpsB, startLOD, lastFrom, manualAt, blockPos, deviceVars, audioVars, sceneVars, loopVars>>

SteadyRecord ==
    /\ calls < MaxSteadyCalls
    /\ UpdatePerformance(fpsA)
    /\ calls' = calls + 1
    /\ startLOD' = IF calls = 0 THEN currentLOD ELSE startLOD
    /\ lastFrom' = IF currentLOD' # currentLOD THEN currentLOD ELSE lastFrom
    /\ lastCall' = <<"updatePerformance", fpsA>>
    /\ UNCHANGED <<fpsA, fpsB, manualAt, blockPos, deviceVars, audioVars, sceneVars, loopVars>>

NextSteady == SteadySelect \/ SteadyRecord

SpecSteady == InitSteady /\ [][NextSteady]_vars

----------------------------------------------------------------------------
(* SpecOverride: the caller feeds one fps value and selects tiers by hand *)
(* at any time in between.                                                *)

InitOverride ==
    /\ ConstructLOD("returns")
    /\ CallerInit
    /\ fpsA \in PhaseFps /\ fpsB = fpsA
    /\ NewDevice(DesktopHost) /\ NewAudioAnalyzer(SmallConfig) /\ ParkedScene /\ NewApp

OverrideSelect ==
    /\ \E lodName \in LODNames :
          /\ SetLOD(lodName)
          /\ lastCall' = <<"setLOD", lodName>>
    /\ manualAt' = calls
    /\ UNCHANGED <<calls, fpsA, fpsB, startLOD, lastFrom, blockPos, deviceVars, audioVars, sceneVars, loopVars>>

OverrideRecord ==
    /\ calls < MaxOverrideCalls
    /\ UpdatePerformance(fpsA)
    /\ calls' = calls + 1
    /\ lastFrom' = IF currentLOD' # currentLOD THEN currentLOD ELSE lastFrom
    /\ lastCall' = <<"updatePerformance", fpsA>>
    /\ UNCHANGED <<fpsA, fpsB, startLOD, manualAt, blockPos, deviceVars, audioVars, sceneVars, loopVars>>

NextOverride == OverrideSelect \/ OverrideRecord

SpecOverride == InitOverride /\ [][NextOverride]_vars

----------------------------------------------------------------------------
(* SpecTwoPhase: a fresh controller is fed 30 samples of one fps value,   *)
(* then samples of a second value.                                        *)

InitTwoPhase ==
    /\ ConstructLOD("returns")
    /\ CallerInit
    /\ fpsA \in PhaseFps /\ fpsB \in PhaseFps
    /\ NewDevice(DesktopHost) /\ NewAudioAnalyzer(SmallConfig) /\ ParkedScene /\ NewApp

RecordFirstPhase ==
    /\ calls < 30
    /\ UpdatePerformance(fpsA)
    /\ calls' = calls + 1
    /\ lastCall' = <<"updatePerformance", fpsA>>
    /\ UNCHANGED <<fpsA, fpsB, startLOD, lastFrom, manualAt, blockPos, deviceVars, audioVars, sceneVars, loopVars>>

RecordSecondPhase ==
    /\ calls >= 30 /\ calls < MaxPhaseCalls
    /\ UpdatePerformance(fpsB)
    /\ calls' = calls + 1
    /\ lastCall' = <<"updatePerformance", fpsB>>
    /\ UNCHANGED <<fpsA, fpsB, startLOD, lastFrom, manualAt, blockPos, deviceVars, audioVars, sceneVars, loopVars>>

NextTwoPhase == RecordFirstPhase \/ RecordSecondPhase

SpecTwoPhase == InitTwoPhase /\ [][NextTwoPhase]_vars

----------------------------------------------------------------------------
(* SpecDevice: a session starts on any host: the profiler is constructed  *)
(* next to a fresh controller.                                            *)

InitDevice ==
    /\ ConstructLOD("returns")
    /\ CallerInit /\ fpsA = 0 /\ fpsB = 0
    /\ \E h \in Hosts : NewDevice(h)
    /\ NewAudioAnalyzer(SmallConfig) /\ ParkedScene /\ NewApp

NextDevice ==
    \/ DetectDeviceInfo /\ UNCHANGED <<lodVars, callerVars, audioVars, sceneVars, loopVars>>
    \/ DetermineQualitySettings /\ UNCHANGED <<lodVars, callerVars, audioVars, sceneVars, loopVars>>

SpecDevice == InitDevice /\ [][NextDevice]_vars

----------------------------------------------------------------------------
(* SpecAudio: an analyser of any bounded config, polled for any frames.   *)

InitAudio ==
    /\ ConstructLOD("returns")
    /\ CallerInit /\ fpsA = 0 /\ fpsB = 0
    /\ NewDevice(DesktopHost)
    /\ \E cfg \in Configs : NewAudioAnalyzer(cfg)
    /\ ParkedScene /\ NewApp

NextAudio ==
    \/ Initialize /\ UNCHANGED <<lodVars, callerVars, deviceVars, sceneVars, loopVars>>
    \/ GetFrequencyDataNoAnalyser /\ UNCHANGED <<lodVars, callerVars, deviceVars, sceneVars, loopVars>>
    \/ GetFrequencyDataAnalysed /\ UNCHANGED <<lodVars, callerVars, deviceVars, sceneVars, loopVars>>
    \/ Dispose /\ UNCHANGED <<lodVars, callerVars, deviceVars, sceneVars, loopVars>>

SpecAudio == InitAudio /\ [][NextAudio]_vars

----------------------------------------------------------------------------
(* SpecLoop: the render loop started, stopped and refreshed in any order;  *)
(* any frame may end by an exception of one of its steps.                  *)

InitLoop ==
    /\ ConstructLOD("returns")
    /\ CallerInit /\ fpsA = 0 /\ fpsB = 0
    /\ NewDevice(DesktopHost) /\ NewAudioAnalyzer(SmallConfig) /\ ParkedScene /\ NewApp

LoopStart ==
    /\ framesRun < MaxFrames
    /\ \E throws \in BOOLEAN : StartRenderLoop(throws)
    /\ lastLoopCall' = "start"
    /\ UNCHANGED <<lodVars, callerVars, deviceVars, audioVars, sceneVars, uiVars>>

LoopStop ==
    /\ StopRenderLoop
    /\ lastLoopCall' = "stop"
    /\ UNCHANGED <<lodVars, callerVars, deviceVars, audioVars, sceneVars, uiVars>>

LoopRefresh ==
    /\ framesRun < MaxFrames
    /\ \E throws \in BOOLEAN : Refresh(throws)
    /\ lastLoopCall' = "refresh"
    /\ UNCHANGED <<lodVars, callerVars, deviceVars, audioVars, sceneVars, uiVars>>

NextLoop == LoopStart \/ LoopStop \/ LoopRefresh

SpecLoop == InitLoop /\ [][NextLoop]_vars

----------------------------------------------------------------------------
(* SpecSource: connect calls made at any time, each resumed at any time    *)
(* after the event it waits for.                                           *)

InitSource ==
    /\ ConstructLOD("returns")
    /\ CallerInit /\ fpsA = 0 /\ fpsB = 0
    /\ NewDevice(DesktopHost) /\ NewAudioAnalyzer(SmallConfig) /\ ParkedScene /\ NewApp

NextSource ==
    \E c \in ConnectCalls :
        /\ \/ MicStart(c)
           \/ \E available \in BOOLEAN : MicChecked(c, available)
           \/ \E granted \in BOOLEAN : MicStreamResolved(c, granted)
           \/ FileStart(c)
           \/ FileInitialized(c)
           \/ \E loaded \in BOOLEAN : FileLoaded(c, loaded)
        /\ UNCHANGED <<lodVars, callerVars, deviceVars, sceneVars, loopVars>>

SpecSource == InitSource /\ [][NextSource]_vars

----------------------------------------------------------------------------
(* SpecControls: the user's clicks and the browser's events in any order.  *)

InitControls ==
    /\ ConstructLOD("returns")
    /\ CallerInit /\ fpsA = 0 /\ fpsB = 0
    /\ NewDevice(DesktopHost) /\ NewAudioAnalyzer(SmallConfig) /\ ParkedScene /\ NewApp

NextControls ==
    /\ \/ \E h \in ConnectCalls :
             \/ HandleMicrophoneToggle(h)
             \/ \E available \in BOOLEAN : MicrophonePermission(h, available)
             \/ \E available \in BOOLEAN : MicrophoneChecked(h, available)
             \/ \E granted \in BOOLEAN : MicrophoneConnected(h, granted)
             \/ HandleFileUpload(h)
             \/ FileUploadInitialized(h)
             \/ \E loaded \in BOOLEAN : FileUploadLoaded(h, loaded)
             \/ ElementEnded(h)
       \/ HandlePlay
       \/ HandlePause
       \/ HandleStop
    /\ UNCHANGED <<lodVars, callerVars, deviceVars, renderVars>>

SpecControls == InitControls /\ [][NextControls]_vars

----------------------------------------------------------------------------
(* The callers of the scene: an engine is constructed with a config drawn  *)
(* from the caller's sets and driven by any order of scene calls.          *)

\* the inputs of the probe call whose output mesh the caller records
Probe == [audioData |-> Loud, time |-> 1]

InitSceneFrom(counts, segments) ==
    /\ ConstructLOD("returns")
    /\ CallerInit /\ fpsA = 0 /\ fpsB = 0
    /\ NewDevice(DesktopHost) /\ NewAudioAnalyzer(SmallConfig) /\ NewApp
    /\ \E n \in counts, g \in segments :
          NewVisualizerEngine([particleCount |-> n, geometrySegments |-> g,
                               morphingIntensity |-> 1])
    /\ SceneCallerInit

SceneFinishSetup ==
    /\ FinishParticleSetup
    /\ UNCHANGED <<updates, probeOut, lodVars, callerVars, deviceVars, audioVars, loopVars>>

SceneStart ==
    /\ StartAnimation
    /\ UNCHANGED <<updates, probeOut, lodVars, callerVars, deviceVars, audioVars, loopVars>>

SceneStop ==
    /\ StopAnimation
    /\ UNCHANGED <<updates, probeOut, lodVars, callerVars, deviceVars, audioVars, loopVars>>

SceneConfigureFrom(configUpdates) ==
    /\ \E u \in configUpdates : UpdateConfig(u[1], u[2])
    /\ UNCHANGED <<updates, probeOut, lodVars, callerVars, deviceVars, audioVars, loopVars>>

SceneUpdateFrom(audioInputs, times) ==
    /\ updates < MaxUpdates
    /\ \E audioData \in audioInputs, time \in times :
          /\ UpdateVisualization(audioData, time)
          /\ probeOut' =
                IF /\ isAnimating /\ audioData = Probe.audioData /\ time = Probe.time
                   /\ probeOut[vizConfig.morphingIntensity] = <<>>
                THEN [probeOut EXCEPT ![vizConfig.morphingIntensity] = meshPositions']
                ELSE probeOut
    /\ updates' = updates + 1
    /\ UNCHANGED <<lodVars, callerVars, deviceVars, audioVars, loopVars>>

----------------------------------------------------------------------------
(* SpecScene: any config at construction, any config update; the frames    *)
(* are silent, so the particles keep their places.                         *)

InitScene == InitSceneFrom(ParticleCounts, GeometrySegments)

NextScene ==
    \/ SceneFinishSetup \/ SceneStart \/ SceneStop
    \/ SceneConfigureFrom(ConfigUpdates)
    \/ SceneUpdateFrom({Silence}, {0})

SpecScene == InitScene /\ [][NextScene]_vars

----------------------------------------------------------------------------
(* SpecSetup: the engine's operations called at any time while the         *)
(* particle setup started by the constructor is still waiting for its      *)
(* shaders, and after it.                                                  *)

InitSetup == InitSceneFrom({0, 1}, {1})

SceneToggleParticles ==
    /\ ToggleParticles
    /\ UNCHANGED <<updates, probeOut, lodVars, callerVars, deviceVars, audioVars, loopVars>>

SceneDispose ==
    /\ DisposeEngine
    /\ UNCHANGED <<updates, probeOut, lodVars, callerVars, deviceVars, audioVars, loopVars>>

NextSetup ==
    \/ SceneFinishSetup \/ SceneStart \/ SceneStop
    \/ SceneUpdateFrom({Silence}, {0})
    \/ SceneToggleParticles \/ SceneDispose

SpecSetup == InitSetup /\ [][NextSetup]_vars

----------------------------------------------------------------------------
(* SpecParticles: one or two particles under silent and loud frames once   *)
(* the animation was started, the particle count reconfigured at will.     *)

InitParticles == InitSceneFrom({1, 2}, {1})

NextParticles ==
    \/ SceneFinishSetup \/ SceneStart
    \/ SceneConfigureFrom({u \in ConfigUpdates : u[1] = "particleCount" /\ u[2] > 0})
    \/ SceneUpdateFrom(AudioInputs, {0})

SpecParticles == InitParticles /\ [][NextParticles]_vars

----------------------------------------------------------------------------
(* SpecMorph: an engine without particles under silent and loud frames,    *)
(* the morphing intensity and the mesh resolution reconfigured at will.    *)

InitMorph == InitSceneFrom({0}, GeometrySegments)

NextMorph ==
    \/ SceneFinishSetup \/ SceneStart \/ SceneStop
    \/ SceneConfigureFrom({u \in ConfigUpdates : u[1] # "particleCount"})
    \/ SceneUpdateFrom(AudioInputs, Times)

SpecMorph == InitMorph /\ [][NextMorph]_vars

----------------------------------------------------------------------------
(* Claims about PerformanceLOD *)

Abs(x) == IF x < 0 THEN -x ELSE x

\* C1: a single updatePerformance call moves the current tier by at most one
\* position of the tier table, whatever fps values were recorded.
C1_SingleStep ==
    [][lastCall'[1] = "updatePerformance"
          => Abs(currentLOD' - currentLOD) <= 1]_vars

\* a full window that starts fast and ends stalled, just downgraded by a call
C1_Witness ==
    /\ lastCall = <<"updatePerformance", 10>>
    /\ Len(performanceHistory) = maxHistoryLength
    /\ performanceHistory[1] = 65
    /\ lodChangeCallback = "returns"
    /\ callbackArgs = <<currentLOD>>
    /\ currentLOD = 1

\* C2: fed the same fps value on every call, the controller never leaves a
\* tier for the tier it last came from (no oscillation between neighbours).
C2_NoOscillation ==
    [][(calls' = calls + 1 /\ currentLOD' # currentLOD) => currentLOD' # lastFrom]_vars

\* C3: starting at tier T with an empty history, up to 200 calls with
\* fps = T.targetFPS - 2 never change the tier nor invoke the callback.
C3_DeadBand ==
    [][(calls' = calls + 1 /\ fpsA = lodLevels[startLOD'].targetFPS - 2)
          => (currentLOD' = startLOD' /\ callbackArgs' = <<>>)]_vars

\* the 200th dead-band sample recorded at a tier chosen by the caller
C3_Witness ==
    /\ calls = 200
    /\ startLOD = 4
    /\ fpsA = lodLevels[startLOD].targetFPS - 2
    /\ currentLOD = startLOD

\* C4: from Medium, 30 samples of fps 30 leave the tier at Low after the 30th
\* call and unchanged before it; 30 further samples of fps 60 leave it at
\* Medium after the last call.
C4_Scenario ==
    (fpsA = 30 /\ fpsB = 60) =>
        /\ calls < 30 => currentLOD = 2
        /\ calls = 30 => currentLOD = 1
        /\ calls = 60 => currentLOD = 2

\* C4 as amended: the 30 further samples of fps 60 leave the tier at High.
C4_ScenarioHigh ==
    (fpsA = 30 /\ fpsB = 60) =>
        /\ calls < 30 => currentLOD = 2
        /\ calls = 30 => currentLOD = 1
        /\ calls = 60 => currentLOD = 3

\* the end of the scenario
C4_Witness ==
    /\ fpsA = 30 /\ fpsB = 60 /\ calls = 60
    /\ Len(performanceHistory) = maxHistoryLength
    /\ currentLOD = 3

\* C5: an updatePerformance call that changes the tier invokes the registered
\* callback exactly once, with the new tier; a call that leaves the tier
\* alone does not invoke it.
C5_CallbackOnChange ==
    [][(lastCall'[1] = "updatePerformance" /\ lodChangeCallback # "none")
          => callbackArgs' = IF currentLOD' # currentLOD THEN <<currentLOD'>> ELSE <<>>]_vars

\* an upgrade made by updatePerformance and reported to the callback
C5_Witness ==
    /\ lastCall = <<"updatePerformance", 65>>
    /\ performanceHistory[1] = 10
    /\ lodChangeCallback = "returns"
    /\ callbackArgs = <<4>>
    /\ currentLOD = 4

\* C6: no call on the controller ends by an exception of the callback
\* reaching the caller.
C6_CallbackIsolated == threw = FALSE

\* C7: setLOD with the name of another tier makes that tier current and
\* leaves the fps history as it was.
C7_ManualOverride ==
    [][(lastCall'[1] = "setLOD" /\ FindLOD(lastCall'[2]) \notin {-1, currentLOD})
          => (currentLOD' = FindLOD(lastCall'[2])
              /\ performanceHistory' = performanceHistory)]_vars

\* Ultra selected by hand over a full history of stalled frames
C7_Witness ==
    /\ lastCall = <<"setLOD", "Ultra">>
    /\ currentLOD = 4
    /\ Len(performanceHistory) = maxHistoryLength
    /\ \A i \in 1..maxHistoryLength : performanceHistory[i] = 10

----------------------------------------------------------------------------
(* Claims about DeviceCapabilities *)

\* the quality parameters a controller tier and a recommendation share
SameQuality(lod, settings) ==
    /\ lod.particleCount = settings.particleCount
    /\ lod.geometrySegments = settings.geometrySegments
    /\ lod.enableComplexShaders = settings.enableComplexShaders
    /\ lod.enablePostProcessing = settings.enablePostProcessing

DeviceClass(info) ==
    IF \/ (info.isMobile /\ info.cores <= 2 /\ info.memoryGB <= 2)
       \/ info.gpuTier = "low"
       \/ info.maxTextureSize < 4096
    THEN "low-end"
    ELSE IF info.isMobile THEN "mobile"
    ELSE IF info.gpuTier = "high" THEN "high"
    ELSE "middle"

\* the particle counts of the four outcomes, lowest to highest
OutcomeRank(settings) ==
    Cardinality({n \in {200, 500, 1000, 2000} : n < settings.particleCount})

\* C9: the recommendation is the first match of the table low-end, mobile,
\* gpuTier high, otherwise middle, read on (mobile, cores, memory, gpuTier,
\* maxTextureSize): lowest, second-lowest, highest and middle settings, and
\* exactly one of the four.
C9_DecisionTable ==
    pcDevice = "ready" =>
        /\ qualitySettings.particleCount \in {200, 500, 1000, 2000}
        /\ OutcomeRank(qualitySettings) =
              CASE DeviceClass(deviceInfo) = "low-end" -> 0
                [] DeviceClass(deviceInfo) = "mobile" -> 1
                [] DeviceClass(deviceInfo) = "middle" -> 2
                [] DeviceClass(deviceInfo) = "high" -> 3
        /\ qualitySettings \in
              {LowEndSettings, MobileSettings(deviceInfo.hasHighDPI),
               HighSettings(host.devicePixelRatio), MediumSettings(host.devicePixelRatio)}

\* a low-end mobile host with a high GPU tier gets the lowest settings
C9_Witness ==
    /\ pcDevice = "ready"
    /\ deviceInfo.isMobile /\ deviceInfo.cores <= 2 /\ deviceInfo.memoryGB <= 2
    /\ deviceInfo.gpuTier = "high"
    /\ deviceInfo.maxTextureSize >= 4096
    /\ qualitySettings = LowEndSettings

\* a mobile host that is not low-end and has a high GPU tier gets the
\* second-lowest settings
C9_WitnessMobile ==
    /\ pcDevice = "ready"
    /\ deviceInfo.isMobile /\ deviceInfo.cores > 2
    /\ deviceInfo.gpuTier = "high"
    /\ deviceInfo.maxTextureSize >= 4096
    /\ qualitySettings.particleCount = 500

----------------------------------------------------------------------------
(* Claims about AudioAnalyzer *)

\* a level is a number of [0, 1]
InUnit(level) ==
    /\ ~level.nan
    /\ level.den > 0
    /\ 0 <= level.num
    /\ level.num <= level.den

\* C10: for every frame of samples in [0, 255] and the configured band
\* ranges, the four levels getFrequencyData returns lie in [0, 1].
C10_LevelsInUnit ==
    audioResult.returned =>
        /\ InUnit(audioResult.bassLevel)
        /\ InUnit(audioResult.midLevel)
        /\ InUnit(audioResult.trebleLevel)
        /\ InUnit(audioResult.overallLevel)

\* a saturated frame analysed over ranges that lie inside the frame
C10_Witness ==
    /\ audioResult.returned
    /\ analyser
    /\ \A i \in DOMAIN frequencyData : frequencyData[i] = 255
    /\ config.bassRange = <<0, 2>> /\ config.trebleRange = <<2, 4>>
    /\ audioResult.bassLevel.num = audioResult.bassLevel.den
    /\ audioResult.overallLevel.num = audioResult.overallLevel.den

----------------------------------------------------------------------------
(* Claims about malformed band ranges and the unconnected analyser *)

IsZero(level) == ~level.nan /\ level.num = 0

\* the band ranges of the config next to the levels of a result
BandsOf(cfg, r) ==
    {<<cfg.bassRange, r.bassLevel>>, <<cfg.midRange, r.midLevel>>,
     <<cfg.trebleRange, r.trebleLevel>>}

\* the samples of the frame at the indices of the range that exist
RECURSIVE SumAt(_, _)
SumAt(frame, S) ==
    IF S = {} THEN 0
    ELSE LET i == CHOOSE j \in S : TRUE IN frame[i] + SumAt(frame, S \ {i})

\* C11: a band range with end <= start, or with indices beyond the frame
\* length (wholly or partly), yields the band level 0.
C11_MalformedRangeZero ==
    [][(analyser /\ analyser') =>
          \A b \in BandsOf(config, audioResult') :
              (b[1][2] <= b[1][1] \/ b[1][2] > BufferLength(frequencyData'))
                  => IsZero(b[2])]_vars

\* C11 amended: a band range with end <= start, or lying wholly beyond the
\* frame, yields 0; a range partly beyond the frame yields the sum of its
\* samples inside the frame over (end - start) * 255.
C11_MalformedRangeLevel ==
    [][(analyser /\ analyser') =>
          \A b \in BandsOf(config, audioResult') :
              LET start == b[1][1]
                  end == b[1][2]
                  n == BufferLength(frequencyData')
              IN /\ (end <= start \/ start >= n) => IsZero(b[2])
                 /\ (start < n /\ n < end) =>
                        /\ ~b[2].nan
                        /\ b[2].num = SumAt(frequencyData', start..(n - 1))
                        /\ b[2].den = (end - start) * 255]_vars

\* a treble range of three bins of which only the first lies in the frame
C11_Witness ==
    /\ analyser /\ audioResult.returned
    /\ config.fftSize = 8 /\ config.trebleRange = <<3, 6>>
    /\ config.midRange = <<3, 1>> /\ config.bassRange = <<0, 10>>
    /\ frequencyData[3] = 255
    /\ audioResult.trebleLevel.num = 255
    /\ audioResult.trebleLevel.den = 3 * 255
    /\ IsZero(audioResult.midLevel)

\* C12: with no audio connected (before initialize, or after dispose that
\* followed frames of non-zero audio) getFrequencyData returns the four
\* levels 0 and a frequency buffer whose every sample is 0.
C12_UnconnectedAllZero ==
    [][(~analyser /\ ~analyser' /\ audioResult'.returned) =>
          /\ IsZero(audioResult'.bassLevel) /\ IsZero(audioResult'.midLevel)
          /\ IsZero(audioResult'.trebleLevel) /\ IsZero(audioResult'.overallLevel)
          /\ \A i \in DOMAIN audioResult'.frequencyData :
                 audioResult'.frequencyData[i] = 0]_vars

----------------------------------------------------------------------------
(* Claims about warm-up and the downgrade rule *)

\* C19: none of the first 29 updatePerformance calls after construction
\* changes the tier or invokes the callback.
C19_WarmUp ==
    [][(lastCall'[1] = "updatePerformance" /\ Len(performanceHistory') <= 29)
          => (currentLOD' = currentLOD /\ callbackArgs' = <<>>)]_vars

\* the 29th call of a controller that has seen stalled frames only
C19_Witness ==
    /\ lastCall = <<"updatePerformance", 10>>
    /\ Len(performanceHistory) = 29
    /\ \A i \in 1..29 : performanceHistory[i] = 10
    /\ lodChangeCallback = "returns"
    /\ currentLOD = StartIndex
    /\ callbackArgs = <<>>

\* C20: with at least 30 samples held, an updatePerformance call moves the
\* tier one index down exactly when the mean of the 30 most recent samples
\* is below the current tier's targetFPS - 5 and the tier is not the lowest.
C20_DowngradeRule ==
    [][(lastCall'[1] = "updatePerformance" /\ Len(performanceHistory') >= 30)
          => LET h == performanceHistory'
                 recent == SumAt(h, (Len(h) - 29)..Len(h))
             IN (currentLOD' = currentLOD - 1)
                   <=> (recent < (lodLevels[currentLOD].targetFPS - 5) * 30
                        /\ currentLOD > 0)]_vars

\* a downgrade from Ultra made on the last 30 samples while the mean of the
\* whole history of 60 is still above Ultra's target - 5
C20_Witness ==
    /\ lastCall = <<"updatePerformance", 10>>
    /\ Len(performanceHistory) = maxHistoryLength
    /\ SumAt(performanceHistory, 1..60) >= (60 - 5) * 60
    /\ SumAt(performanceHistory, 31..60) < (60 - 5) * 30
    /\ currentLOD = 3
    /\ callbackArgs = <<3>>

----------------------------------------------------------------------------
(* Claims about the render loop *)

\* C15: starting the render loop while it runs and stopping it while it is
\* stopped change nothing; at most one frame callback is pending at any
\* time, so a display refresh processes at most one frame; and no frame is
\* processed, nor any callback left pending, once the loop is stopped.
C15_RenderLoop ==
    /\ [](/\ Cardinality(pendingFrames) <= 1
          /\ framesInRefresh <= 1
          /\ ~isRunning => pendingFrames = {})
    /\ [][/\ (lastLoopCall' = "start" /\ isRunning) => LoopState' = LoopState
          /\ (lastLoopCall' = "stop" /\ ~isRunning) => LoopState' = LoopState
          /\ (~isRunning /\ lastLoopCall' # "start") => framesRun' = framesRun]_vars

\* a loop restarted after a stop, whose one pending callback has a later id
\* than the one the stop cancelled
C15_Witness ==
    /\ lastLoopCall = "start"
    /\ isRunning
    /\ framesRun >= 3
    /\ nextFrameId >= 3
    /\ pendingFrames = {animationFrameId}

----------------------------------------------------------------------------
(* Claims about the scene *)

\* C13: after any sequence of scene calls the particle position and velocity
\* buffers hold exactly getParticleCount() particles (3 floats each), and the
\* per-frame particle loop never uses an index past the end of the buffers.
C13_BuffersMatchCount ==
    /\ particlePositions # Undefined =>
          /\ BufferLength(particlePositions) = 3 * GetParticleCount
          /\ BufferLength(particleVelocities) = 3 * GetParticleCount
    /\ ~pastEnd

\* C14: a config with a non-positive particle count or mesh resolution is
\* rejected with an error and changes nothing, so no call sets either field
\* to a non-positive value.
C14_RejectsNonPositive ==
    [][/\ vizConfig'.particleCount # vizConfig.particleCount
             => (vizConfig'.particleCount > 0 /\ ~vizThrew')
       /\ vizConfig'.geometrySegments # vizConfig.geometrySegments
             => (vizConfig'.geometrySegments > 0 /\ ~vizThrew')]_vars

\* C16: an updateVisualization call writes all of mesh, material, particle
\* buffers, particle material and camera, or none of them.
C16_AtomicUpdate == vizWrites = {} \/ vizWrites = AllParts

\* C17: after an update, every particle whose integrated position was
\* farther than 8 from the origin is at a distance in [3, 4).
C17_BoundaryTeleport ==
    \A i \in 1..Len(integrated) :
        Norm2(integrated[i]) > 80 * 80 =>
            /\ Norm2(Vec(particlePositions, i - 1)) >= 30 * 30
            /\ Norm2(Vec(particlePositions, i - 1)) < 40 * 40

\* a particle integrated to a distance of 10 or more and put back at 3.5
C17_Witness ==
    \E i \in 1..Len(integrated) :
        /\ Norm2(integrated[i]) >= 100 * 100
        /\ Vec(particlePositions, i - 1) = <<21, 28, 0>>
        /\ vizWrites = AllParts

\* a morphing call made while animating with the probe's band levels and
\* elapsed time
ProbeCall ==
    /\ updates' = updates + 1
    /\ isAnimating
    /\ icosphereMaterial' = UpdateMaterialProperties(Probe.audioData, Probe.time)

\* C18: two morphing calls with the same band levels and elapsed time on the
\* same base mesh produce the same vertex buffer, whatever calls were made
\* in between, and no call modifies the stored base vertices.
C18_MorphPure ==
    [][/\ ProbeCall =>
             \A m \in MorphingIntensities :
                 probeOut[m] # <<>> => meshPositions' = probeOut[m]
       /\ originalVertices' = originalVertices]_vars

\* C18 amended: the same holds of two calls made under the same
\* morphingIntensity setting.
C18_MorphPureOfIntensity ==
    [][/\ ProbeCall =>
             (probeOut[vizConfig.morphingIntensity] # <<>>
                 => meshPositions' = probeOut[vizConfig.morphingIntensity])
       /\ originalVertices' = originalVertices]_vars

\* a third probe call that gives the mesh of the first again, a probe call
\* under another intensity having given a different mesh in between
C18_Witness ==
    /\ updates = 3
    /\ vizConfig.morphingIntensity = 1
    /\ probeOut[1] # <<>> /\ probeOut[2] # <<>>
    /\ probeOut[1] # probeOut[2]
    /\ meshPositions = probeOut[1]
    /\ meshPositions # [k \in DOMAIN originalVertices |-> originalVertices[k] * Scale]
    /\ icosphereMaterial = UpdateMaterialProperties(Probe.audioData, Probe.time)

----------------------------------------------------------------------------
(* Claims about the upgrade rule, the history and manual selection *)

\* C21: with at least 30 samples held, an updatePerformance call moves the
\* tier one index up exactly when the mean of the 30 most recent samples is
\* above the current tier's targetFPS + 3 and the tier is not the highest;
\* when neither this nor the downgrade condition holds the tier stays.
C21_UpgradeRule ==
    [][(lastCall'[1] = "updatePerformance" /\ Len(performanceHistory') >= 30)
          => LET h == performanceHistory'
                 recent == SumAt(h, (Len(h) - 29)..Len(h))
                 target == lodLevels[currentLOD].targetFPS
                 up == recent > (target + 3) * 30 /\ currentLOD < 4
                 down == recent < (target - 5) * 30 /\ currentLOD > 0
             IN /\ (currentLOD' = currentLOD + 1) <=> up
                /\ (~up /\ ~down) => currentLOD' = currentLOD]_vars

\* an upgrade from Potato made on the last 30 samples while the mean of the
\* whole history of 60 is still below Potato's target + 3
C21_Witness ==
    /\ lastCall = <<"updatePerformance", 65>>
    /\ Len(performanceHistory) = maxHistoryLength
    /\ SumAt(performanceHistory, 31..60) > (30 + 3) * 30
    /\ SumAt(performanceHistory, 1..60) <= (30 + 3) * 60
    /\ currentLOD = 1
    /\ callbackArgs = <<1>>

\* C22: the fps history is a queue of capacity 60: every updatePerformance
\* call appends its sample at the end, a call on a full history drops
\* exactly the oldest sample, and the length is min(n, 60) after n calls.
C22_HistoryRing ==
    /\ [](Len(performanceHistory) <= 60)
    /\ [][lastCall'[1] = "updatePerformance"
             => LET h == performanceHistory
                    n == Len(h)
                IN /\ Len(performanceHistory') = IF n < 60 THEN n + 1 ELSE 60
                   /\ performanceHistory'[Len(performanceHistory')] = lastCall'[2]
                   /\ \A i \in 1..(Len(performanceHistory') - 1) :
                          performanceHistory'[i] = h[IF n < 60 THEN i ELSE i + 1]]_vars

\* a full history whose oldest block of equal samples is cut down to one
\* sample by evictions
C22_Witness ==
    /\ lastCall = <<"updatePerformance", 10>>
    /\ Len(performanceHistory) = maxHistoryLength
    /\ performanceHistory[1] = 65
    /\ performanceHistory[2] = 10
    /\ performanceHistory[60] = 10
    /\ performanceHistory[51] = 65

\* C26: the current tier always is one of the five tiers of the table, and
\* setLOD with a name that matches no tier, or the current tier, changes
\* neither tier nor history and invokes no callback.
C26_TierInTable ==
    /\ [](currentLOD \in 0..4)
    /\ [][(lastCall'[1] = "setLOD" /\ FindLOD(lastCall'[2]) \in {-1, currentLOD})
             => /\ currentLOD' = currentLOD
                /\ performanceHistory' = performanceHistory
                /\ callbackArgs' = <<>>
                /\ ~threw']_vars

\* an unknown name passed to a controller that holds a changed tier and
\* whose callback throws
C26_Witness ==
    /\ lastCall = <<"setLOD", "Unknown">>
    /\ lodChangeCallback = "throws"
    /\ Len(performanceHistory) >= 30
    /\ currentLOD = 0
    /\ callbackArgs = <<>> /\ ~threw

\* C23: when the tier-change callback runs during updatePerformance, the
\* history already ends with the sample of this call and getCurrentLOD()
\* already gives the new tier; a callback that throws leaves both so.
C23_CommittedBeforeCallback ==
    [][(lastCall'[1] = "updatePerformance" /\ callbackArgs' # <<>>)
          => /\ currentLOD' # currentLOD
             /\ callbackSaw' = <<[currentLOD |-> currentLOD',
                                  length |-> Len(performanceHistory'),
                                  newest |-> lastCall'[2]]>>
             /\ performanceHistory' = PushHistory(performanceHistory, lastCall'[2])
             /\ currentLOD' = NewLODIndex(performanceHistory', currentLOD)
             /\ threw' = (lodChangeCallback = "throws")]_vars

\* the 30th sample makes the first downgrade and the callback throws
C23_Witness ==
    /\ threw
    /\ lastCall = <<"updatePerformance", 10>>
    /\ Len(performanceHistory) = 30
    /\ currentLOD = 1
    /\ callbackSaw = <<[currentLOD |-> 1, length |-> 30, newest |-> 10]>>

\* C27: a manual selection does not suspend the automatic evaluation: the
\* updatePerformance call that directly follows a setLOD made after at
\* least 29 samples appends its sample to the history held before and
\* applies the downgrade / upgrade rule with the targetFPS of the tier the
\* controller holds after that selection.
C27_EvaluationAfterSetLOD ==
    [][(manualAt = calls /\ calls' = calls + 1 /\ calls >= 29)
          => LET h == performanceHistory'
                 recent == SumAt(h, (Len(h) - 29)..Len(h))
                 target == lodLevels[currentLOD].targetFPS
             IN /\ h = PushHistory(performanceHistory, lastCall'[2])
                /\ Len(h) >= 30
                /\ currentLOD' =
                      IF recent < (target - 5) * 30 /\ currentLOD > 0
                      THEN currentLOD - 1
                      ELSE IF recent > (target + 3) * 30 /\ currentLOD < 4
                           THEN currentLOD + 1
                           ELSE currentLOD]_vars

\* Ultra selected by hand after 29 samples of 10 fps is left for High on
\* the 30th sample
C27_Witness ==
    /\ calls = 30 /\ manualAt = 29
    /\ lastCall = <<"updatePerformance", 10>>
    /\ lastFrom = 4
    /\ currentLOD = 3
    /\ callbackArgs = <<3>>

----------------------------------------------------------------------------
(* Claims about the analyzer's band ranges *)

\* the half-open index ranges [a[1], a[2]) and [b[1], b[2]) share no index
Disjoint(a, b) == a[2] <= b[1] \/ b[2] <= a[1] \/ a[1] >= a[2] \/ b[1] >= b[2]

\* C25: the bass, mid and treble index ranges of every constructed analyzer
\* are well-formed ranges, pairwise non-overlapping and contained in [0, N)
\* with N = fftSize / 2 the frame length.
C25_RangesWithinFrame ==
    LET N == config.fftSize \div 2
        ranges == {config.bassRange, config.midRange, config.trebleRange}
    IN /\ BufferLength(frequencyData) = N
       /\ \A r \in ranges : 0 <= r[1] /\ r[1] <= r[2] /\ r[2] <= N
       /\ Disjoint(config.bassRange, config.midRange)
       /\ Disjoint(config.midRange, config.trebleRange)
       /\ Disjoint(config.bassRange, config.trebleRange)

----------------------------------------------------------------------------
(* Claims about the particle setup *)

\* C30: no operation of the engine reads the particle material or the
\* particle system object before the constructor's particle setup has
\* assigned it.
C30_AssignedBeforeUse == unassignedRead \notin {"particleMaterial", "particleSystem"}

----------------------------------------------------------------------------
(* Claims about the frame *)

\* position of a call in the latest frame's calls, 0 if it was not made
CallIndex(name) ==
    IF \E i \in 1..Len(frameCalls) : frameCalls[i] = name
    THEN CHOOSE i \in 1..Len(frameCalls) : frameCalls[i] = name
    ELSE 0

\* C24: every frame runs the frequency analysis before the scene update
\* and then records one fps sample into the quality controller: the
\* controller's history grows by one sample per frame run.
C24_FramePipeline ==
    /\ [](framesRun > 0
            => /\ CallIndex("getFrequencyData") > 0
               /\ CallIndex("getFrequencyData") < CallIndex("updateVisualization"))
    /\ [][framesRun' > framesRun
             => Len(performanceHistory') =
                   Len(performanceHistory) + (framesRun' - framesRun)]_vars

----------------------------------------------------------------------------
(* Claims about the audio source *)

\* C28: once every connect call has completed, the only source node
\* connected to the analyser node and the only live microphone stream are
\* the ones the analyzer records: every other one that was acquired has
\* been disconnected or stopped.
C28_SingleSource ==
    (\A c \in ConnectCalls : connectPc[c] \in {"idle", "done", "failed"})
       => /\ connectedSources \subseteq {source}
          /\ liveStreams \subseteq {currentStream}

----------------------------------------------------------------------------
(* Claims about the audio controls *)

\* C29: whenever no microphone-toggle or file-upload handler is in
\* progress, the visualizer is animating exactly when isPlaying is true,
\* and isPlaying implies that the audio mode is not "none".
C29_PlayingMatchesAnimation ==
    (\A h \in ConnectCalls : uiPc[h] \in {"idle", "done"})
       => /\ isAnimating <=> isPlaying
          /\ isPlaying => currentAudioMode # "none"

====
